---- MODULE Spec2Model ----
(***************************************************************************)
(* Model of the TeleNotif / Telegrify request handlers:                    *)
(*   - setup_webhook_handler.webhook_handler  (server/routes.py 182-252)   *)
(*   - create_endpoint_handler.handler        (server/routes.py 86-173)    *)
(* Strings are sequences of one-character strings, so that prefix,         *)
(* substring and tokenisation are real operations.  A Python Optional is   *)
(* a sequence of length 0 (None / absent) or 1 (the value).                *)
(* Each action is one segment of a coroutine between two awaits: asyncio   *)
(* runs such a segment without interleaving.                               *)
(***************************************************************************)
EXTENDS Integers, Sequences, FiniteSets, TLC

VARIABLES
  callbacks,   \* config.callbacks : list of CallbackConfig
  commands,    \* config.commands  : list of CommandConfig
  wpc,         \* position of the webhook coroutine
  update,      \* the body of the webhook request being handled
  wcalls,      \* outbound calls issued for this webhook request, in order
  wresp,       \* Optional response returned by webhook_handler
  wraised,     \* Optional exception that reached the except clause
  wmatched,    \* index of the handler the for-loop stopped at (0: none)
  wbranch,     \* which branch of the if/elif was entered
  api_key,     \* config.server.api_key
  registry,    \* the formatter instances of the plugin registry, by name
  npc,         \* position of the notification coroutine
  request,     \* the notification request being handled
  targets,     \* target_chat_ids
  body,        \* formatted_message, parse_mode, image fields and reply_markup
  nidx,        \* position in target_chat_ids of the delivery being awaited
  ncalls,      \* bot calls issued for this request, in order
  delivered,   \* positions whose bot call returned (the message is out)
  nfailed,     \* positions whose bot call raised
  results,     \* the results list of the handler
  nresp,       \* Optional HTTP response of the handler
  gf_call,     \* the last direct call of get_field: arguments and result
  kb_call,     \* the last direct call of build_inline_keyboard
  esc_call,    \* the last direct call of an escaper, with its validation
  raw_api_key, \* server.api_key as the config file has it
  environ,     \* os.environ when the config is loaded
  inflight     \* the notification requests being served concurrently

wvars == <<callbacks, commands, wpc, update, wcalls, wresp, wraised, wmatched, wbranch>>

nvars == <<api_key, registry, npc, request, targets, body, nidx, ncalls, delivered,
           nfailed, results, nresp>>

pvars == <<gf_call, kb_call, esc_call>>

svars == <<raw_api_key, environ, inflight>>

vars == <<wvars, nvars, pvars, svars>>

----------------------------------------------------------------------------
(* Bounds *)

MaxHandlers == 2
MaxTextLen == 3
MaxDests == 3
MaxRows == 2
MaxCols == 2
MaxRequests == 2

----------------------------------------------------------------------------
(* Optionals and strings *)

None == <<>>
Some(x) == <<x>>
IsSome(o) == Len(o) = 1
Val(o) == o[1]

\* Python truthiness of an Optional[str]: None and "" are falsy.
Truthy(o) == IsSome(o) /\ Val(o) # <<>>

SeqsUpTo(S, n) == UNION {[1..k -> S] : k \in 0..n}

IsWs(c) == c = " "

\* str.split() with no argument: runs of whitespace separate, no empty tokens.
RECURSIVE split_ws(_)
split_ws(s) ==
  IF s = <<>> THEN <<>>
  ELSE IF IsWs(Head(s)) THEN split_ws(Tail(s))
  ELSE LET n == CHOOSE k \in 1..Len(s) :
                  /\ \A i \in 1..k : ~IsWs(s[i])
                  /\ (k = Len(s) \/ IsWs(s[k+1]))
       IN <<SubSeq(s, 1, n)>> \o split_ws(SubSeq(s, n+1, Len(s)))

\* str.split(sep) with a one-character separator: empty pieces are kept.
RECURSIVE split_on(_, _)
split_on(s, sep) ==
  IF \A i \in 1..Len(s) : s[i] # sep THEN <<s>>
  ELSE LET k == CHOOSE j \in 1..Len(s) :
                  s[j] = sep /\ \A i \in 1..(j-1) : s[i] # sep
       IN <<SubSeq(s, 1, k-1)>> \o split_on(SubSeq(s, k+1, Len(s)), sep)

startswith(s, c) == Len(s) >= 1 /\ s[1] = c

Digit(d) == <<"0","1","2","3","4","5","6","7","8","9">>[d+1]

RECURSIVE NatStr(_)
NatStr(n) == IF n < 10 THEN <<Digit(n)>> ELSE NatStr(n \div 10) \o <<Digit(n % 10)>>

\* str(int)
Str(n) == IF n < 0 THEN <<"-">> \o NatStr(-n) ELSE NatStr(n)

----------------------------------------------------------------------------
\* jinja2 Template(t).render of a context: a template is a sequence of
\* pieces, literal text or a variable reference; an undefined name renders
\* empty; a malformed template raises when it is constructed.

Lit(s) == [k |-> "lit", v |-> s]
Var(n) == [k |-> "var", v |-> <<n>>]
Bad == [k |-> "bad", v |-> <<>>]

TemplateRaises(t) == \E i \in 1..Len(t) : t[i].k = "bad"

RenderPiece(p, ctx) ==
  IF p.k = "lit" THEN p.v
  ELSE IF p.v[1] \in DOMAIN ctx THEN ctx[p.v[1]] ELSE <<>>

RECURSIVE Render(_, _)
Render(t, ctx) ==
  IF t = <<>> THEN <<>> ELSE RenderPiece(Head(t), ctx) \o Render(Tail(t), ctx)

\* The string a template is written as, which is what a caller holds when it
\* does not render: a variable reference is written between double braces.
SourcePiece(p) ==
  IF p.k = "lit" THEN p.v
  ELSE IF p.k = "var" THEN <<"{", "{">> \o p.v \o <<"}", "}">>
  ELSE <<"{", "%">>

RECURSIVE Source(_)
Source(t) == IF t = <<>> THEN <<>> ELSE SourcePiece(Head(t)) \o Source(Tail(t))

----------------------------------------------------------------------------
(* build_inline_keyboard: routes.py 17-39 *)

\* Variant: callback_data is tested with its own if, not with elif.
InlineButton_both(btn, payload, render) ==
  [text |-> IF render THEN Render(btn.text, payload) ELSE Source(btn.text),
   url |-> IF Truthy(btn.url)
             THEN Some(IF render THEN Render(Val(btn.url), payload) ELSE Source(Val(btn.url)))
             ELSE None,
   callback_data |-> IF Truthy(btn.callback_data)
                       THEN Some(IF render THEN Render(Val(btn.callback_data), payload)
                                           ELSE Source(Val(btn.callback_data)))
                       ELSE None]

InlineButton(btn, payload, render) ==
  LET text == IF render THEN Render(btn.text, payload) ELSE Source(btn.text)
  IN IF Truthy(btn.url)
       THEN [text |-> text,
             url |-> Some(IF render THEN Render(Val(btn.url), payload) ELSE Source(Val(btn.url))),
             callback_data |-> None]
     ELSE IF Truthy(btn.callback_data)
       THEN [text |-> text,
             url |-> None,
             callback_data |-> Some(IF render THEN Render(Val(btn.callback_data), payload)
                                              ELSE Source(Val(btn.callback_data)))]
     ELSE [text |-> text, url |-> None, callback_data |-> None]

\* Variant: a row is appended only when it holds a button.
build_inline_keyboard_skip_empty_rows(buttons, payload, payload_truthy) ==
  IF buttons = <<>> THEN None
  ELSE LET rows == SelectSeq(buttons, LAMBDA row : row # <<>>)
       IN Some([i \in 1..Len(rows) |->
                  [j \in 1..Len(rows[i]) |->
                     InlineButton(rows[i][j], payload, payload_truthy)]])

\* payload_truthy is Python's "if payload": false for None and for {}.
build_inline_keyboard(buttons, payload, payload_truthy) ==
  IF buttons = <<>> THEN None
  ELSE Some([i \in 1..Len(buttons) |->
               [j \in 1..Len(buttons[i]) |->
                  InlineButton(buttons[i][j], payload, payload_truthy)]])

\* Template(...) is constructed only for the strings that are rendered.
ButtonRaises(btn, render) ==
  /\ render
  /\ \/ TemplateRaises(btn.text)
     \/ Truthy(btn.url) /\ TemplateRaises(Val(btn.url))
     \/ ~Truthy(btn.url) /\ Truthy(btn.callback_data) /\ TemplateRaises(Val(btn.callback_data))

KeyboardRaises(buttons, payload_truthy) ==
  \E i \in 1..Len(buttons) : \E j \in 1..Len(buttons[i]) :
     ButtonRaises(buttons[i][j], payload_truthy)

----------------------------------------------------------------------------
(* Configuration: core/config.py CallbackConfig, CommandConfig, ButtonConfig *)

ButtonConfig(text, url, callback_data) ==
  [text |-> text, url |-> url, callback_data |-> callback_data]

CallbackConfig(data, response, url) ==
  [data |-> data, response |-> response, url |-> url]

CommandConfig(command, response, parse_mode, buttons) ==
  [command |-> command, response |-> response, parse_mode |-> parse_mode,
   buttons |-> buttons]

\* One row holding one callback button whose text is a template.
ReplyButtons ==
  << << ButtonConfig(<<Lit(<<"g","o">>), Var("first_name")>>, None, Some(<<Lit(<<"a">>)>>)) >> >>

CallbackHandlers ==
  { CallbackConfig(<<"a">>, Some(<<"o","k">>), None),
    CallbackConfig(<<"a">>, None, Some(<<"u">>)),
    CallbackConfig(<<"a","b">>, Some(<<"n","o">>), Some(<<"u">>)) }

CommandHandlers ==
  { CommandConfig(<<"/","s">>, Some(<<Lit(<<"H","i">>), Var("first_name"), Var("command")>>), None, <<>>),
    CommandConfig(<<"/","s">>, None, None, <<>>),
    CommandConfig(<<"/">>, Some(<<Var("username")>>), Some("MarkdownV2"), ReplyButtons),
    CommandConfig(<<"/","s">>, Some(<<Bad>>), None, <<>>) }

\* The handler lists of a config: at most MaxHandlers handlers in all.
Configs ==
  { c \in SeqsUpTo(CallbackHandlers, MaxHandlers) \X SeqsUpTo(CommandHandlers, MaxHandlers) :
      Len(c[1]) + Len(c[2]) <= MaxHandlers }

----------------------------------------------------------------------------
(* Webhook request bodies *)

UserMap(first_name, username) ==
  [ismap |-> TRUE, first_name |-> first_name, username |-> username]

\* A "from" value that is not a mapping (null, a number, a string).
NonMapUser == [ismap |-> FALSE, first_name |-> None, username |-> None]

\* The default of callback.get("from", {}) and message.get("from", {}).
EmptyUser == UserMap(None, None)

Froms == {None, Some(NonMapUser), Some(UserMap(Some(<<"A">>), Some(<<"u">>)))}

CallbackDatas == SeqsUpTo({"a", "b"}, 2)

NonMapQuery ==
  [ismap |-> FALSE, id |-> None, data |-> None, from |-> None, message |-> None]

CallbackQueries ==
  {NonMapQuery} \cup
  [ismap : {TRUE}, id : {None, Some(<<"q">>)},
   data : {None} \cup {Some(d) : d \in CallbackDatas},
   from : Froms, message : {None, Some(<<"m">>)}]

Alphabet == {"/", "s", "@", " "}

StrText(s) == [isstr |-> TRUE, s |-> s]
NonStrText == [isstr |-> FALSE, s |-> <<>>]

Texts == {None, Some(NonStrText)} \cup {Some(StrText(s)) : s \in SeqsUpTo(Alphabet, MaxTextLen)}

ChatIds == {7, -12}

NonMapMessage == [ismap |-> FALSE, chat_id |-> None, from |-> None, text |-> None]

\* chat_id stands for message["chat"]["id"]; None when either key is missing.
Messages ==
  {NonMapMessage} \cup
  [ismap : {TRUE}, chat_id : {None} \cup {Some(n) : n \in ChatIds}, from : Froms, text : Texts]

\* The message that accompanies a callback query in an update carrying both.
ProbeMessage ==
  [ismap |-> TRUE, chat_id |-> Some(7), from |-> None, text |-> Some(StrText(<<"/","s">>))]

Body(json, callback_query, message) ==
  [json |-> json, callback_query |-> callback_query, message |-> message]

\* json: "invalid" (request.json() raises), "scalar" (a number, null or
\* boolean: the "in" test raises), "array" (an array holding neither key),
\* "object".
Updates ==
  {Body("invalid", None, None), Body("scalar", None, None), Body("array", None, None),
   Body("object", None, None)}
  \cup {Body("object", Some(c), None) : c \in CallbackQueries}
  \cup {Body("object", None, Some(m)) : m \in Messages}
  \cup {Body("object", Some(c), Some(ProbeMessage)) : c \in CallbackQueries}

NoUpdate == Body("none", None, None)

----------------------------------------------------------------------------
(* Outbound calls: bot.answer_callback_query, bot.send_message, session.post *)

Call(op, to, text, parse_mode, reply_markup, json) ==
  [op |-> op, to |-> to, text |-> text, parse_mode |-> parse_mode,
   reply_markup |-> reply_markup, json |-> json]

----------------------------------------------------------------------------
(* webhook_handler: routes.py 182-252 *)

\* dict.get(key, "") on a user mapping
user_get(user, field) == IF IsSome(user[field]) THEN Val(user[field]) ELSE <<>>

\* Variant: the last handler with equal data is taken.
find_callback_last(cbs, callback_data) ==
  IF \E i \in 1..Len(cbs) : cbs[i].data = callback_data
    THEN CHOOSE i \in 1..Len(cbs) :
           cbs[i].data = callback_data /\ \A j \in (i+1)..Len(cbs) : cbs[j].data # callback_data
    ELSE 0

IsPrefix(p, t) == Len(p) <= Len(t) /\ SubSeq(t, 1, Len(p)) = p

\* Variant: a handler is taken when its data is a prefix of the incoming data.
find_callback_prefix(cbs, callback_data) ==
  IF \E i \in 1..Len(cbs) : IsPrefix(cbs[i].data, callback_data)
    THEN CHOOSE i \in 1..Len(cbs) :
           /\ IsPrefix(cbs[i].data, callback_data)
           /\ \A j \in 1..(i-1) : ~IsPrefix(cbs[j].data, callback_data)
    ELSE 0

\* routes.py 198-199: the for loop stops at the first handler whose data equals
\* the incoming data; 0 stands for the loop's else branch.
find_callback(cbs, callback_data) ==
  IF \E i \in 1..Len(cbs) : cbs[i].data = callback_data
    THEN CHOOSE i \in 1..Len(cbs) :
           cbs[i].data = callback_data /\ \A j \in 1..(i-1) : cbs[j].data # callback_data
    ELSE 0

\* Variant: the bot-name suffix is kept.
command_token_keep_suffix(text) == split_ws(text)[1]

\* routes.py 222
command_token(text) == split_on(split_ws(text)[1], "@")[1]

\* Variant: handlers without a response text are skipped by the scan.
find_command_with_response(cmds, command) ==
  IF \E i \in 1..Len(cmds) : cmds[i].command = command /\ Truthy(cmds[i].response)
    THEN CHOOSE i \in 1..Len(cmds) :
           /\ cmds[i].command = command /\ Truthy(cmds[i].response)
           /\ \A j \in 1..(i-1) : ~(cmds[j].command = command /\ Truthy(cmds[j].response))
    ELSE 0

\* routes.py 225-226
find_command(cmds, command) ==
  IF \E i \in 1..Len(cmds) : cmds[i].command = command
    THEN CHOOSE i \in 1..Len(cmds) :
           cmds[i].command = command /\ \A j \in 1..(i-1) : cmds[j].command # command
    ELSE 0

\* routes.py 228-234
command_context(user, chat_id, command) ==
  [user |-> user, chat_id |-> chat_id, first_name |-> user_get(user, "first_name"),
   username |-> user_get(user, "username"), command |-> command]

\* Variant: the message field is tested before the callback-query field.
classify_message_first(u) ==
  IF IsSome(u.message) THEN "message"
  ELSE IF IsSome(u.callback_query) THEN "callback"
  ELSE "none"

\* routes.py 189, 214: which branch of the if/elif an object update enters
classify(u) ==
  IF IsSome(u.callback_query) THEN "callback"
  ELSE IF IsSome(u.message) THEN "message"
  ELSE "none"

\* routes.py 248
ok_response == [ok |-> TRUE]

\* Variant: the except clause reports success.
except_response_ok(e) == [ok |-> TRUE]

\* routes.py 250-252
except_response(e) == [ok |-> FALSE, error |-> e]

\* The result of running the handler up to its next await or its return.
Returned(calls, matched, branch) ==
  [pc |-> "done", calls |-> calls, resp |-> Some(ok_response), raised |-> None,
   matched |-> matched, branch |-> branch]

\* Variant: no except clause, the exception leaves the handler.
Raised_propagates(e, calls, matched, branch) ==
  [pc |-> "done", calls |-> calls, resp |-> None, raised |-> Some(e),
   matched |-> matched, branch |-> branch]

Raised(e, calls, matched, branch) ==
  [pc |-> "done", calls |-> calls, resp |-> Some(except_response(e)), raised |-> Some(e),
   matched |-> matched, branch |-> branch]

Awaiting(pc, calls, matched, branch) ==
  [pc |-> pc, calls |-> calls, resp |-> None, raised |-> None,
   matched |-> matched, branch |-> branch]

\* Variant: the matched handler's POST is issued first, the acknowledgment
\* after it.
callback_branch_post_first(cbs, callback) ==
  IF ~callback.ismap THEN Raised("TypeError", <<>>, 0, "callback")
  ELSE IF ~IsSome(callback.id) THEN Raised("KeyError", <<>>, 0, "callback")
  ELSE
    LET callback_id == Val(callback.id)
        callback_data == IF IsSome(callback.data) THEN Val(callback.data) ELSE <<>>
        user == IF IsSome(callback.from) THEN Val(callback.from) ELSE EmptyUser
    IN IF ~user.ismap THEN Raised("AttributeError", <<>>, 0, "callback")
       ELSE
         LET i == find_callback(cbs, callback_data)
             text == IF i > 0 THEN cbs[i].response ELSE None
         IN IF i > 0 /\ Truthy(cbs[i].url)
              THEN Awaiting("await_post",
                     <<Call("post", Val(cbs[i].url), None, None, None, None),
                       Call("answer_callback_query", callback_id, text, None, None, None)>>,
                     i, "callback")
              ELSE Awaiting("await_answer",
                     <<Call("answer_callback_query", callback_id, text, None, None, None)>>,
                     i, "callback")

\* routes.py 190-211, up to the await of answer_callback_query
callback_branch(cbs, callback) ==
  IF ~callback.ismap THEN Raised("TypeError", <<>>, 0, "callback")
  ELSE IF ~IsSome(callback.id) THEN Raised("KeyError", <<>>, 0, "callback")
  ELSE
    LET callback_id == Val(callback.id)
        callback_data == IF IsSome(callback.data) THEN Val(callback.data) ELSE <<>>
        user == IF IsSome(callback.from) THEN Val(callback.from) ELSE EmptyUser
    IN IF ~user.ismap THEN Raised("AttributeError", <<>>, 0, "callback")
       ELSE
         LET i == find_callback(cbs, callback_data)
             text == IF i > 0 THEN cbs[i].response ELSE None
         IN Awaiting("await_answer",
                     <<Call("answer_callback_query", callback_id, text, None, None, None)>>,
                     i, "callback")

\* routes.py 215-246, up to the await of send_message
message_branch(cmds, message) ==
  IF ~message.ismap THEN Raised("TypeError", <<>>, 0, "message")
  ELSE IF ~IsSome(message.chat_id) THEN Raised("KeyError", <<>>, 0, "message")
  ELSE
    LET chat_id == Str(Val(message.chat_id))
        user == IF IsSome(message.from) THEN Val(message.from) ELSE EmptyUser
        text == IF IsSome(message.text) THEN Val(message.text) ELSE StrText(<<>>)
    IN IF ~text.isstr THEN Raised("AttributeError", <<>>, 0, "message")
       ELSE IF ~startswith(text.s, "/") THEN Returned(<<>>, 0, "message")
       ELSE
         LET command == command_token(text.s)
             i == find_command(cmds, command)
         IN IF ~user.ismap THEN Raised("AttributeError", <<>>, 0, "message")
            ELSE IF i = 0 THEN Returned(<<>>, 0, "message")
            ELSE IF ~Truthy(cmds[i].response) THEN Returned(<<>>, i, "message")
            ELSE IF TemplateRaises(Val(cmds[i].response))
              THEN Raised("TemplateSyntaxError", <<>>, i, "message")
            ELSE
              LET context == command_context(user, chat_id, command)
                  response_text == Render(Val(cmds[i].response), context)
              IN IF response_text = <<>> THEN Returned(<<>>, i, "message")
                 ELSE IF KeyboardRaises(cmds[i].buttons, TRUE)
                   THEN Raised("TemplateSyntaxError", <<>>, i, "message")
                 ELSE Awaiting("await_send",
                        <<Call("send_message", chat_id, Some(response_text),
                               cmds[i].parse_mode,
                               build_inline_keyboard(cmds[i].buttons, context, TRUE),
                               None)>>,
                        i, "message")

\* routes.py 184-248, up to the first await after request.json()
webhook_start(cbs, cmds, u) ==
  IF u.json = "invalid" THEN Raised("JSONDecodeError", <<>>, 0, "none")
  ELSE IF u.json = "scalar" THEN Raised("TypeError", <<>>, 0, "none")
  ELSE IF u.json = "array" THEN Returned(<<>>, 0, "none")
  ELSE IF classify(u) = "callback" THEN callback_branch(cbs, Val(u.callback_query))
  ELSE IF classify(u) = "message" THEN message_branch(cmds, Val(u.message))
  ELSE Returned(<<>>, 0, "none")

\* routes.py 202-208: the POST a matched handler with a url issues after the
\* acknowledgment has returned
forward_post(handler, callback) ==
  Call("post", Val(handler.url), None, None, None,
       Some([callback_data |-> IF IsSome(callback.data) THEN Val(callback.data) ELSE <<>>,
             user |-> IF IsSome(callback.from) THEN Val(callback.from) ELSE EmptyUser,
             message |-> callback.message]))

WebhookInit ==
  /\ \E c \in Configs : callbacks = c[1] /\ commands = c[2]
  /\ wpc = "idle"
  /\ update = NoUpdate
  /\ wcalls = <<>>
  /\ wresp = None
  /\ wraised = None
  /\ wmatched = 0
  /\ wbranch = "none"

\* A webhook request arrives and runs to its first await or to its return.
WebhookReceive ==
  /\ wpc = "idle"
  /\ \E u \in Updates :
       LET r == webhook_start(callbacks, commands, u)
       IN /\ update' = u
          /\ wpc' = r.pc
          /\ wcalls' = r.calls
          /\ wresp' = r.resp
          /\ wraised' = r.raised
          /\ wmatched' = r.matched
          /\ wbranch' = r.branch
  /\ UNCHANGED <<callbacks, commands>>

\* bot.answer_callback_query returns or raises (routes.py 200-211).
AnswerReturns ==
  /\ wpc = "await_answer"
  /\ \E outcome \in {"ok", "raise"} :
       IF outcome = "raise"
         THEN /\ wpc' = "done"
              /\ wresp' = Some(except_response("BotError"))
              /\ wraised' = Some("BotError")
              /\ wcalls' = wcalls
       ELSE IF wmatched > 0 /\ Truthy(callbacks[wmatched].url)
         THEN /\ wpc' = "await_post"
              /\ wcalls' = Append(wcalls,
                             forward_post(callbacks[wmatched], Val(update.callback_query)))
              /\ UNCHANGED <<wresp, wraised>>
       ELSE /\ wpc' = "done"
            /\ wresp' = Some(ok_response)
            /\ UNCHANGED <<wraised, wcalls>>
  /\ UNCHANGED <<callbacks, commands, update, wmatched, wbranch>>

\* session.post returns or raises (routes.py 203-209, 248-252).
PostReturns ==
  /\ wpc = "await_post"
  /\ \E outcome \in {"ok", "raise"} :
       IF outcome = "raise"
         THEN /\ wresp' = Some(except_response("ClientError"))
              /\ wraised' = Some("ClientError")
         ELSE /\ wresp' = Some(ok_response)
              /\ UNCHANGED wraised
  /\ wpc' = "done"
  /\ UNCHANGED <<callbacks, commands, update, wcalls, wmatched, wbranch>>

\* bot.send_message returns or raises (routes.py 240-252).
SendReturns ==
  /\ wpc = "await_send"
  /\ \E outcome \in {"ok", "raise"} :
       IF outcome = "raise"
         THEN /\ wresp' = Some(except_response("BotError"))
              /\ wraised' = Some("BotError")
         ELSE /\ wresp' = Some(ok_response)
              /\ UNCHANGED wraised
  /\ wpc' = "done"
  /\ UNCHANGED <<callbacks, commands, update, wcalls, wmatched, wbranch>>

\* The response has been sent; the server waits for the next update.
WebhookReturn ==
  /\ wpc = "done"
  /\ wpc' = "idle"
  /\ update' = NoUpdate
  /\ wcalls' = <<>>
  /\ wresp' = None
  /\ wraised' = None
  /\ wmatched' = 0
  /\ wbranch' = "none"
  /\ UNCHANGED <<callbacks, commands>>

WebhookNext ==
  \/ WebhookReceive /\ UNCHANGED <<nvars, pvars, svars>>
  \/ AnswerReturns /\ UNCHANGED <<nvars, pvars, svars>>
  \/ PostReturns /\ UNCHANGED <<nvars, pvars, svars>>
  \/ SendReturns /\ UNCHANGED <<nvars, pvars, svars>>
  \/ WebhookReturn /\ UNCHANGED <<nvars, pvars, svars>>

----------------------------------------------------------------------------
(* utils/escape.py: escaping for the parse modes *)

\* The grave accent (U+0060), which cannot be written inside a TLA+ string
Grave == "U+0060"

\* escape.py 75: the characters of the MarkdownV2 character class
MARKDOWNV2_SPECIAL_CHARS ==
  {"_", "*", "[", "]", "(", ")", "~", Grave, ">", "#", "+", "=", "|", "{", "}", ".", "!", "-"}

\* escape.py 121
MARKDOWN_SPECIAL_CHARS == {"_", "*", Grave, "["}

\* re.sub of the class by a backslash and the match: a backslash goes before
\* every character of the class
RECURSIVE escape_class(_, _)
escape_class(text, class) ==
  IF text = <<>> THEN <<>>
  ELSE (IF Head(text) \in class THEN <<"\\", Head(text)>> ELSE <<Head(text)>>)
       \o escape_class(Tail(text), class)

\* Variant: a character that already follows a backslash is left alone.
RECURSIVE escape_unescaped(_, _, _)
escape_unescaped(text, class, after_backslash) ==
  IF text = <<>> THEN <<>>
  ELSE (IF Head(text) \in class /\ ~after_backslash THEN <<"\\", Head(text)>>
        ELSE <<Head(text)>>)
       \o escape_unescaped(Tail(text), class, Head(text) = "\\")

escape_markdown_v2_once(text) == escape_unescaped(text, MARKDOWNV2_SPECIAL_CHARS, FALSE)

\* escape.py 27-80, for a str argument
escape_markdown_v2(text) == escape_class(text, MARKDOWNV2_SPECIAL_CHARS)

\* Variant: the opening bracket is not in the class.
escape_markdown_no_bracket(text) == escape_class(text, MARKDOWN_SPECIAL_CHARS \ {"["})

\* escape.py 83-124, for a str argument
escape_markdown(text) == escape_class(text, MARKDOWN_SPECIAL_CHARS)

\* escape.py 157-159: the three replacements, "&" first
RECURSIVE escape_for_html(_)
escape_for_html(text) ==
  IF text = <<>> THEN <<>>
  ELSE (IF Head(text) = "&" THEN <<"&", "a", "m", "p", ";">>
        ELSE IF Head(text) = "<" THEN <<"&", "l", "t", ";">>
        ELSE IF Head(text) = ">" THEN <<"&", "g", "t", ";">>
        ELSE <<Head(text)>>)
       \o escape_for_html(Tail(text))

\* escape.py 164-217; parse_mode is an Optional[str]
sanitize_text(text, parse_mode) ==
  IF parse_mode = Some(<<"M","a","r","k","d","o","w","n","V","2">>) THEN escape_markdown_v2(text)
  ELSE IF parse_mode = Some(<<"M","a","r","k","d","o","w","n">>) THEN escape_markdown(text)
  ELSE IF parse_mode = Some(<<"H","T","M","L">>) THEN escape_for_html(text)
  ELSE text

MarkdownV2 == <<"M","a","r","k","d","o","w","n","V","2">>
Markdown == <<"M","a","r","k","d","o","w","n">>

\* escape.py 272, 277: re.findall of a character of the class that no
\* backslash precedes
unescaped_positions(text, class) ==
  {i \in 1..Len(text) : text[i] \in class /\ (i = 1 \/ text[i - 1] # "\\")}

\* escape.py 253-281
validate_escaped_text(text, parse_mode) ==
  IF text = <<>> THEN TRUE
  ELSE IF parse_mode = MarkdownV2
    THEN unescaped_positions(text, MARKDOWNV2_SPECIAL_CHARS) = {}
  ELSE IF parse_mode = Markdown
    THEN unescaped_positions(text, MARKDOWN_SPECIAL_CHARS) = {}
  ELSE TRUE

----------------------------------------------------------------------------
(* JSON values of a notification payload: pairs <<tag, value>>.  A           *)
(* mapping is a function from key strings to JSON values.                   *)

JNull == <<"null", <<>>>>
JStr(s) == <<"str", s>>
JNum(n) == <<"num", n>>
JList(l) == <<"list", l>>
JMap(f) == <<"map", f>>

\* Python truthiness of a JSON value
truthy(x) ==
  IF x[1] = "null" THEN FALSE
  ELSE IF x[1] = "num" THEN x[2] # 0
  ELSE IF x[1] = "map" THEN DOMAIN x[2] # {}
  ELSE x[2] # <<>>

\* An Optional[str] of the config as a JSON value
OptJson(o) == IF IsSome(o) THEN JStr(Val(o)) ELSE JNull

RECURSIVE Join(_)
Join(piece) == IF piece = <<>> THEN "" ELSE Head(piece) \o Join(Tail(piece))

\* Variant: the walk calls .get on whatever value it has reached.
RECURSIVE walk_unguarded(_, _, _)
walk_unguarded(value, keys, default) ==
  IF keys = <<>> THEN (IF value[1] = "null" THEN default ELSE value)
  ELSE IF value[1] = "map"
    THEN walk_unguarded(IF Join(Head(keys)) \in DOMAIN value[2]
                          THEN value[2][Join(Head(keys))] ELSE JNull,
                        Tail(keys), default)
  ELSE IF value[1] = "null" THEN default
  ELSE <<"raise", <<"AttributeError">>>>

\* routes.py 72-78: the walk along the keys of a dotted path
RECURSIVE walk(_, _, _)
walk(value, keys, default) ==
  IF keys = <<>> THEN (IF value[1] = "null" THEN default ELSE value)
  ELSE IF value[1] = "map"
    THEN walk(IF Join(Head(keys)) \in DOMAIN value[2] THEN value[2][Join(Head(keys))] ELSE JNull,
              Tail(keys), default)
  ELSE default

\* routes.py 67-79; payload is the mapping itself, field_map maps logical
\* fields to dotted paths
get_field(field_map, payload, field, default) ==
  IF field \in DOMAIN field_map /\ field_map[field] # <<>>
    THEN walk(JMap(payload), split_on(field_map[field], "."), default)
  ELSE IF field \in DOMAIN payload THEN payload[field] ELSE default

\* What str() of a payload value puts into a rendered template; the text of
\* a list or a mapping is abbreviated.
ToText(x) ==
  IF x[1] = "str" THEN x[2]
  ELSE IF x[1] = "null" THEN <<"N","o","n","e">>
  ELSE IF x[1] = "num" THEN Str(x[2])
  ELSE IF x[1] = "list" THEN <<"[","]">>
  ELSE <<"{","}">>

\* render(**payload): the top-level keys of the payload are the variables
PayloadContext(payload) == [k \in DOMAIN payload |-> ToText(payload[k])]

----------------------------------------------------------------------------
(* Notification endpoints: core/config.py EndpointConfig *)

EndpointConfig(path, chat_id, chat_ids, formatter, template, parse_mode, labels, field_map, buttons) ==
  [path |-> path, chat_id |-> chat_id, chat_ids |-> chat_ids, formatter |-> formatter,
   template |-> template, parse_mode |-> parse_mode, labels |-> labels,
   plugin_config |-> "cfg", field_map |-> field_map, buttons |-> buttons]

\* Variant: the single chat_id is put after the list.
get_chat_ids_appended(ep) ==
  IF Truthy(ep.chat_id) THEN ep.chat_ids \o <<Val(ep.chat_id)>> ELSE ep.chat_ids

\* config.py 84-89
get_chat_ids(ep) ==
  IF Truthy(ep.chat_id) THEN <<Val(ep.chat_id)>> \o ep.chat_ids ELSE ep.chat_ids

NoMap == [k \in {} |-> <<>>]

LinkButtons ==
  << << ButtonConfig(<<Lit(<<"s","e","e">>), Var("name")>>, Some(<<Lit(<<"u">>)>>),
                     Some(<<Lit(<<"c">>)>>)) >> >>

\* A button whose callback_data is not a well-formed template
BadButtons == << << ButtonConfig(<<Lit(<<"o","k">>)>>, None, Some(<<Lit(<<"c">>), Bad>>)) >> >>

endpoints ==
  << EndpointConfig("/one", Some(<<"5">>), <<>>, "plain", None, None, "L1", NoMap, <<>>),
     EndpointConfig("/two", None, <<<<"6">>, <<"5">>>>, "plain", None, Some(<<"H","T","M","L">>),
                    "L2", NoMap, LinkButtons),
     EndpointConfig("/three", Some(<<"5">>), <<<<"6">>, <<"6">>>>, "gone", Some("t1"), None,
                    "L1", NoMap, <<>>),
     EndpointConfig("/four", None, <<>>, "gone", Some("t9"), None, "L1", NoMap, <<>>),
     EndpointConfig("/five", None, <<<<"6">>>>, "custom", Some("t9"), None, "L2",
                    [chat_id |-> <<"a", ".", "b">>, parse_mode |-> <<"a", ".", "c">>], <<>>),
     EndpointConfig("/six", Some(<<"5">>), <<>>, "plain", Some("t2"), None, "L1", NoMap, <<>>),
     EndpointConfig("/seven", Some(<<"5">>), <<>>, "plain", None, None, "L1", NoMap,
                    BadButtons) >>

\* app.state.templates
templates == [t1 |-> <<Lit(<<"N","e","w">>), Var("name")>>, t2 |-> <<Lit(<<"N">>), Bad>>]

Formatter(has_labels, is_plugin, labels) ==
  [has_labels |-> has_labels, is_plugin |-> is_plugin, labels |-> labels]

\* The registry after startup: the two built-ins and one discovered plugin.
Registry0 ==
  [plain |-> Formatter(TRUE, FALSE, ""), markdown |-> Formatter(TRUE, FALSE, ""),
   custom |-> Formatter(FALSE, TRUE, "")]

\* registry.get_formatter(name)
get_formatter(reg, name) == IF name \in DOMAIN reg THEN Some(reg[name]) ELSE None

----------------------------------------------------------------------------
(* Notification requests *)

DestIds == {<<"1">>, <<"2">>}

\* A payload holds the keys whose value is given.
MkPayload(chat_id, chat_ids, parse_mode, image_url, image_urls, a) ==
  LET full == [chat_id |-> chat_id, chat_ids |-> chat_ids, parse_mode |-> parse_mode,
               image_url |-> image_url, image_urls |-> image_urls, a |-> a]
  IN [k \in {x \in DOMAIN full : IsSome(full[x])} |-> Val(full[k])]

NestedValues ==
  { None, Some(JMap([b |-> JStr(<<"3">>)])),
    Some(JMap([b |-> JStr(<<"3">>), c |-> JStr(<<"H","T","M","L">>)])) }

\* Payloads that vary the destinations
DestinationPayloads ==
  { MkPayload(c, cs, None, None, None, a) :
      c \in {None, Some(JStr(<<"9">>))},
      cs \in {None, Some(JNum(3))}
             \cup {Some(JList([i \in 1..Len(l) |-> JStr(l[i])])) : l \in SeqsUpTo(DestIds, MaxDests)},
      a \in NestedValues }

\* Payloads that vary the parse mode and the image fields
ContentPayloads ==
  { MkPayload(None, cs, pm, img[1], img[2], a) :
      cs \in {None, Some(JList(<<JStr(<<"1">>), JStr(<<"2">>)>>))},
      pm \in {None, Some(JStr(<<>>)), Some(JStr(<<"M","a","r","k","d","o","w","n">>))},
      img \in {<<None, None>>, <<Some(JStr(<<"p">>)), None>>, <<Some(JStr(<<>>)), None>>,
               <<None, Some(JList(<<JStr(<<"p">>)>>))>>,
               <<Some(JStr(<<"p">>)), Some(JList(<<JStr(<<"p">>), JStr(<<"q">>)>>))>>},
      a \in NestedValues }

Payloads == DestinationPayloads \cup ContentPayloads

Request(endpoint, payload, x_api_key) ==
  [endpoint |-> endpoint, payload |-> payload, x_api_key |-> x_api_key]

\* The nested key "a" is sent to the endpoint whose field_map reads it.
Requests ==
  { r \in { Request(e, p, k) : e \in 1..Len(endpoints), p \in Payloads,
                                k \in {None, Some("k"), Some("x")} } :
      "a" \in DOMAIN r.payload => endpoints[r.endpoint].field_map # NoMap }

NoRequest == Request(0, NoMap, None)

----------------------------------------------------------------------------
(* create_endpoint_handler.handler: routes.py 86-173 *)

Response(status, kind, message, res) ==
  [status |-> status, kind |-> kind, message |-> message, results |-> res]

\* routes.py 164-167
sent_response(res) == Response(200, "sent", None, Some(res))

\* routes.py 91, 106, 116-119
http_exception(status, error) == Response(status, error, None, None)

\* routes.py 171-173
send_failed(e) == Response(500, "send_failed", Some(e), None)

\* formatted_message: template output, or the output of a formatter
Message(via, text, formatter, labels, config, payload) ==
  [via |-> via, text |-> text, formatter |-> formatter, labels |-> labels,
   config |-> config, payload |-> payload]

\* The name of a payload key as text
KeyText ==
  [chat_id |-> <<"c","h","a","t","_","i","d">>,
   chat_ids |-> <<"c","h","a","t","_","i","d","s">>,
   parse_mode |-> <<"p","a","r","s","e","_","m","o","d","e">>,
   image_url |-> <<"i","m","a","g","e","_","u","r","l">>,
   image_urls |-> <<"i","m","a","g","e","_","u","r","l","s">>,
   a |-> <<"a">>]

RECURSIVE KeyLines(_, _)
KeyLines(keys, payload) ==
  IF keys = <<>> THEN <<>>
  ELSE (IF Head(keys) \in DOMAIN payload
          THEN KeyText[Head(keys)] \o <<":", " ">> \o ToText(payload[Head(keys)]) \o <<"\n">>
          ELSE <<>>)
       \o KeyLines(Tail(keys), payload)

\* formatter.format(payload): one "key: value" line for each key of the payload
format(payload) ==
  KeyLines(<<"chat_id", "chat_ids", "parse_mode", "image_url", "image_urls", "a">>, payload)

\* routes.py 112, 125, 127: the text of formatted_message
formatted_message(message) == message.text

NoBody ==
  [message |-> Message("none", <<>>, "", "", None, NoMap), parse_mode |-> JNull,
   image_url |-> JNull, image_urls |-> JNull, reply_markup |-> None]

\* routes.py 137: what the for loop iterates over; None when iteration raises
Elements(x) ==
  IF x[1] = "list" THEN Some(x[2])
  ELSE IF x[1] = "str" THEN Some([i \in 1..Len(x[2]) |-> JStr(<<x[2][i]>>)])
  ELSE None

\* routes.py 94-103
resolve_targets(ep, payload) ==
  LET payload_chat_id == get_field(ep.field_map, payload, "chat_id", JNull)
      payload_chat_ids == get_field(ep.field_map, payload, "chat_ids", JList(<<>>))
  IN IF truthy(payload_chat_ids) THEN payload_chat_ids
     ELSE IF truthy(payload_chat_id) THEN JList(<<payload_chat_id>>)
     ELSE JList([i \in 1..Len(get_chat_ids(ep)) |-> JStr(get_chat_ids(ep)[i])])

\* Variant: the endpoint's parse mode wins when it is set.
resolve_parse_mode_endpoint_first(ep, payload) ==
  LET p == get_field(ep.field_map, payload, "parse_mode", JNull)
  IN IF IsSome(ep.parse_mode) THEN OptJson(ep.parse_mode) ELSE p

\* routes.py 109
resolve_parse_mode(ep, payload) ==
  LET p == get_field(ep.field_map, payload, "parse_mode", JNull)
  IN IF truthy(p) THEN p ELSE OptJson(ep.parse_mode)

\* routes.py 111
use_template(ep) ==
  IsSome(ep.template) /\ Val(ep.template) # "" /\ Val(ep.template) \in DOMAIN templates

\* Variant: image_url is tested before image_urls.
delivery_call_photo_first(pos, chat_id, b) ==
  IF truthy(b.image_url)
    THEN [op |-> "send_photo", pos |-> pos, chat_id |-> chat_id, text |-> b.message,
          parse_mode |-> b.parse_mode, reply_markup |-> None, photo |-> b.image_url]
  ELSE IF truthy(b.image_urls)
    THEN [op |-> "send_media_group", pos |-> pos, chat_id |-> chat_id, text |-> b.message,
          parse_mode |-> b.parse_mode, reply_markup |-> None, photo |-> b.image_urls]
  ELSE [op |-> "send_message", pos |-> pos, chat_id |-> chat_id, text |-> b.message,
        parse_mode |-> b.parse_mode, reply_markup |-> b.reply_markup, photo |-> JNull]

\* routes.py 138-158: the bot call for the destination at position pos
\* Variant: the keyboard is passed to send_photo as well.
delivery_call_keyboard_on_photo(pos, chat_id, b) ==
  IF truthy(b.image_urls)
    THEN [op |-> "send_media_group", pos |-> pos, chat_id |-> chat_id, text |-> b.message,
          parse_mode |-> b.parse_mode, reply_markup |-> None, photo |-> b.image_urls]
  ELSE IF truthy(b.image_url)
    THEN [op |-> "send_photo", pos |-> pos, chat_id |-> chat_id, text |-> b.message,
          parse_mode |-> b.parse_mode, reply_markup |-> b.reply_markup, photo |-> b.image_url]
  ELSE [op |-> "send_message", pos |-> pos, chat_id |-> chat_id, text |-> b.message,
        parse_mode |-> b.parse_mode, reply_markup |-> b.reply_markup, photo |-> JNull]

delivery_call(pos, chat_id, b) ==
  IF truthy(b.image_urls)
    THEN [op |-> "send_media_group", pos |-> pos, chat_id |-> chat_id, text |-> b.message,
          parse_mode |-> b.parse_mode, reply_markup |-> None, photo |-> b.image_urls]
  ELSE IF truthy(b.image_url)
    THEN [op |-> "send_photo", pos |-> pos, chat_id |-> chat_id, text |-> b.message,
          parse_mode |-> b.parse_mode, reply_markup |-> None, photo |-> b.image_url]
  ELSE [op |-> "send_message", pos |-> pos, chat_id |-> chat_id, text |-> b.message,
        parse_mode |-> b.parse_mode, reply_markup |-> b.reply_markup, photo |-> JNull]

\* The outcome of a segment of the handler.
NotifyEnded(resp, reg) ==
  [pc |-> "done", resp |-> Some(resp), registry |-> reg, targets |-> <<>>,
   body |-> NoBody, calls |-> <<>>]

NotifyAwaiting(reg, tgts, b) ==
  [pc |-> "await_delivery", resp |-> None, registry |-> reg, targets |-> tgts,
   body |-> b, calls |-> <<delivery_call(1, tgts[1], b)>>]

\* Variant: the keyboard is built where it is used, in the loop, so only on
\* the way to a text delivery.
start_delivery_lazy_keyboard(ep, payload, reg, tgts, message) ==
  LET image_url == get_field(ep.field_map, payload, "image_url", JNull)
      image_urls == get_field(ep.field_map, payload, "image_urls", JList(<<>>))
      text_shape == ~truthy(image_urls) /\ ~truthy(image_url)
  IN IF ~IsSome(Elements(tgts))
       THEN NotifyEnded(send_failed("TypeError"), reg)
     ELSE IF text_shape /\ KeyboardRaises(ep.buttons, DOMAIN payload # {})
       THEN NotifyEnded(send_failed("TemplateSyntaxError"), reg)
     ELSE NotifyAwaiting(reg, Val(Elements(tgts)),
            [message |-> message,
             parse_mode |-> resolve_parse_mode(ep, payload),
             image_url |-> image_url,
             image_urls |-> image_urls,
             reply_markup |-> IF text_shape
                                THEN build_inline_keyboard(ep.buttons, PayloadContext(payload),
                                                           DOMAIN payload # {})
                                ELSE None])

\* routes.py 129-137: the image fields, the keyboard, and the first delivery
start_delivery(ep, payload, reg, tgts, message) ==
  IF KeyboardRaises(ep.buttons, DOMAIN payload # {})
    THEN NotifyEnded(send_failed("TemplateSyntaxError"), reg)
  ELSE IF ~IsSome(Elements(tgts))
    THEN NotifyEnded(send_failed("TypeError"), reg)
  ELSE NotifyAwaiting(reg, Val(Elements(tgts)),
         [message |-> message,
          parse_mode |-> resolve_parse_mode(ep, payload),
          image_url |-> get_field(ep.field_map, payload, "image_url", JNull),
          image_urls |-> get_field(ep.field_map, payload, "image_urls", JList(<<>>)),
          reply_markup |-> build_inline_keyboard(ep.buttons, PayloadContext(payload),
                                                 DOMAIN payload # {})])

\* A JSON string as an Optional[str]
OptStr(x) == IF x[1] = "str" THEN Some(x[2]) ELSE None

\* Variant: the output of the formatter is sanitized for the parse mode.
compose_sanitizing(ep, payload, reg, tgts, format_raises) ==
  IF use_template(ep)
    THEN IF TemplateRaises(templates[Val(ep.template)])
           THEN NotifyEnded(send_failed("TemplateSyntaxError"), reg)
         ELSE start_delivery(ep, payload, reg, tgts,
                Message("template", Render(templates[Val(ep.template)], PayloadContext(payload)),
                        "", "", None, NoMap))
  ELSE IF ~IsSome(get_formatter(reg, ep.formatter))
    THEN NotifyEnded(http_exception(500, "formatter_not_found"), reg)
  ELSE
    LET formatter == reg[ep.formatter]
        reg1 == IF formatter.has_labels
                  THEN [reg EXCEPT ![ep.formatter].labels = ep.labels] ELSE reg
    IN IF formatter.is_plugin /\ format_raises
         THEN NotifyEnded(send_failed("PluginError"), reg1)
       ELSE start_delivery(ep, payload, reg1, tgts,
              Message("formatter",
                      sanitize_text(format(payload), OptStr(resolve_parse_mode(ep, payload))),
                      ep.formatter, reg1[ep.formatter].labels,
                      IF formatter.is_plugin THEN Some(ep.plugin_config) ELSE None,
                      payload))

\* Variant: the formatter is looked up before the template is considered.
compose_formatter_first(ep, payload, reg, tgts, format_raises) ==
  IF ~IsSome(get_formatter(reg, ep.formatter))
    THEN NotifyEnded(http_exception(500, "formatter_not_found"), reg)
  ELSE IF use_template(ep)
    THEN IF TemplateRaises(templates[Val(ep.template)])
           THEN NotifyEnded(send_failed("TemplateSyntaxError"), reg)
         ELSE start_delivery(ep, payload, reg, tgts,
                Message("template", Render(templates[Val(ep.template)], PayloadContext(payload)),
                        "", "", None, NoMap))
  ELSE
    LET formatter == reg[ep.formatter]
        reg1 == IF formatter.has_labels
                  THEN [reg EXCEPT ![ep.formatter].labels = ep.labels] ELSE reg
    IN IF formatter.is_plugin /\ format_raises
         THEN NotifyEnded(send_failed("PluginError"), reg1)
       ELSE start_delivery(ep, payload, reg1, tgts,
              Message("formatter", format(payload), ep.formatter, reg1[ep.formatter].labels,
                      IF formatter.is_plugin THEN Some(ep.plugin_config) ELSE None,
                      payload))

\* Variant: format is called before the endpoint's labels are assigned, so
\* it reads the labels the formatter was left with.
compose_format_before_labels(ep, payload, reg, tgts, format_raises) ==
  IF use_template(ep)
    THEN IF TemplateRaises(templates[Val(ep.template)])
           THEN NotifyEnded(send_failed("TemplateSyntaxError"), reg)
         ELSE start_delivery(ep, payload, reg, tgts,
                Message("template", Render(templates[Val(ep.template)], PayloadContext(payload)),
                        "", "", None, NoMap))
  ELSE IF ~IsSome(get_formatter(reg, ep.formatter))
    THEN NotifyEnded(http_exception(500, "formatter_not_found"), reg)
  ELSE
    LET formatter == reg[ep.formatter]
        reg1 == IF formatter.has_labels
                  THEN [reg EXCEPT ![ep.formatter].labels = ep.labels] ELSE reg
    IN IF formatter.is_plugin /\ format_raises
         THEN NotifyEnded(send_failed("PluginError"), reg1)
       ELSE start_delivery(ep, payload, reg1, tgts,
              Message("formatter", format(payload), ep.formatter, reg[ep.formatter].labels,
                      IF formatter.is_plugin THEN Some(ep.plugin_config) ELSE None,
                      payload))

\* routes.py 111-127: the message body; format_raises is whether a plugin's
\* format call raises
compose(ep, payload, reg, tgts, format_raises) ==
  IF use_template(ep)
    THEN IF TemplateRaises(templates[Val(ep.template)])
           THEN NotifyEnded(send_failed("TemplateSyntaxError"), reg)
         ELSE start_delivery(ep, payload, reg, tgts,
                Message("template", Render(templates[Val(ep.template)], PayloadContext(payload)),
                        "", "", None, NoMap))
  ELSE IF ~IsSome(get_formatter(reg, ep.formatter))
    THEN NotifyEnded(http_exception(500, "formatter_not_found"), reg)
  ELSE
    LET formatter == reg[ep.formatter]
        reg1 == IF formatter.has_labels
                  THEN [reg EXCEPT ![ep.formatter].labels = ep.labels] ELSE reg
    IN IF formatter.is_plugin /\ format_raises
         THEN NotifyEnded(send_failed("PluginError"), reg1)
       ELSE start_delivery(ep, payload, reg1, tgts,
              Message("formatter", format(payload), ep.formatter, reg1[ep.formatter].labels,
                      IF formatter.is_plugin THEN Some(ep.plugin_config) ELSE None,
                      payload))

\* Variant: only a header that is present is compared with the key.
notify_start_header_optional(key, reg, req, format_raises) ==
  LET ep == endpoints[req.endpoint]
      tgts == resolve_targets(ep, req.payload)
  IN IF IsSome(key) /\ Val(key) # "" /\ IsSome(req.x_api_key) /\ req.x_api_key # key
       THEN NotifyEnded(http_exception(401, "invalid_api_key"), reg)
     ELSE IF ~truthy(tgts)
       THEN NotifyEnded(http_exception(400, "no_chat_id"), reg)
     ELSE compose(ep, req.payload, reg, tgts, format_raises)

\* Variant: the destination list is not tested; the loop over an empty list
\* sends nothing and the handler returns its empty results.
notify_start_unchecked_targets(key, reg, req, format_raises) ==
  LET ep == endpoints[req.endpoint]
      tgts == resolve_targets(ep, req.payload)
  IN IF IsSome(key) /\ Val(key) # "" /\ req.x_api_key # key
       THEN NotifyEnded(http_exception(401, "invalid_api_key"), reg)
     ELSE IF ~truthy(tgts)
       THEN NotifyEnded(sent_response(<<>>), reg)
     ELSE compose(ep, req.payload, reg, tgts, format_raises)

\* routes.py 90-137: the handler up to its first await or its response
notify_start(key, reg, req, format_raises) ==
  LET ep == endpoints[req.endpoint]
      tgts == resolve_targets(ep, req.payload)
  IN IF IsSome(key) /\ Val(key) # "" /\ req.x_api_key # key
       THEN NotifyEnded(http_exception(401, "invalid_api_key"), reg)
     ELSE IF ~truthy(tgts)
       THEN NotifyEnded(http_exception(400, "no_chat_id"), reg)
     ELSE compose(ep, req.payload, reg, tgts, format_raises)

\* What the bot returns from a call that did not raise: a message, a list of
\* messages (media group), or a reply without a result.
BotResult(kind, message_id) == [kind |-> kind, message_id |-> message_id]

BotResults(op) ==
  IF op = "send_media_group"
    THEN {BotResult("list", Some(41)), BotResult("absent", None)}
    ELSE {BotResult("message", Some(41)), BotResult("absent", None)}

\* routes.py 160
message_id_of(result) == IF result.kind = "absent" THEN None ELSE result.message_id

\* Variant: the newest result is put in front.
append_result_front(res, chat_id, msg_id) ==
  <<[chat_id |-> chat_id, message_id |-> msg_id]>> \o res

\* routes.py 161
append_result(res, chat_id, msg_id) ==
  Append(res, [chat_id |-> chat_id, message_id |-> msg_id])

\* Variant: a failed delivery is skipped and the loop goes on.
on_delivery_raised_continue(tgts, idx, res, b) ==
  IF idx < Len(tgts)
    THEN [pc |-> "await_delivery", resp |-> None, idx |-> idx + 1,
          call |-> Some(delivery_call(idx + 1, tgts[idx + 1], b))]
    ELSE [pc |-> "done", resp |-> Some(sent_response(res)), idx |-> idx, call |-> None]

\* Variant: a failed delivery is attempted once more.
on_delivery_raised_retry(tgts, idx, res, b) ==
  IF Len(ncalls) = idx
    THEN [pc |-> "await_delivery", resp |-> None, idx |-> idx,
          call |-> Some(delivery_call(idx, tgts[idx], b))]
    ELSE [pc |-> "done", resp |-> Some(send_failed("BotError")), idx |-> idx, call |-> None]

\* routes.py 171-173: a raising bot call ends the loop and the request
on_delivery_raised(tgts, idx, res, b) ==
  [pc |-> "done", resp |-> Some(send_failed("BotError")), idx |-> idx, call |-> None]

\* routes.py 137, 160-167: a returning bot call is recorded; the loop goes on
\* to the next destination or the handler returns
on_delivery_returned(tgts, idx, res, b, result) ==
  LET res1 == append_result(res, tgts[idx], message_id_of(result))
  IN IF idx < Len(tgts)
       THEN [pc |-> "await_delivery", resp |-> None, idx |-> idx + 1, results |-> res1,
             call |-> Some(delivery_call(idx + 1, tgts[idx + 1], b))]
       ELSE [pc |-> "done", resp |-> Some(sent_response(res1)), idx |-> idx,
             results |-> res1, call |-> None]

NotifyIdle ==
  /\ npc = "idle"
  /\ request = NoRequest
  /\ targets = <<>>
  /\ body = NoBody
  /\ nidx = 0
  /\ ncalls = <<>>
  /\ delivered = {}
  /\ nfailed = {}
  /\ results = <<>>
  /\ nresp = None

\* Variant: a placeholder whose variable is unset stays as the key.
validate_api_key_keep_placeholder(v, env) ==
  IF Truthy(v) /\ Len(Val(v)) >= 3 /\ SubSeq(Val(v), 1, 2) = <<"$", "{">>
       /\ Val(v)[Len(Val(v))] = "}"
    THEN LET env_var == Join(SubSeq(Val(v), 3, Len(Val(v)) - 1))
         IN IF env_var \in DOMAIN env THEN Some(env[env_var]) ELSE Some(Join(Val(v)))
  ELSE IF IsSome(v) THEN Some(Join(Val(v))) ELSE None

\* config.py 99-105: v is the Optional[str] of the config file, env the
\* environment; os.getenv gives None for a variable that is not set
validate_api_key(v, env) ==
  IF Truthy(v) /\ Len(Val(v)) >= 3 /\ SubSeq(Val(v), 1, 2) = <<"$", "{">>
       /\ Val(v)[Len(Val(v))] = "}"
    THEN LET env_var == Join(SubSeq(Val(v), 3, Len(Val(v)) - 1))
         IN IF env_var \in DOMAIN env THEN Some(env[env_var]) ELSE None
  ELSE IF IsSome(v) THEN Some(Join(Val(v))) ELSE None

\* A request in flight: the locals of its handler
Flight(pc, req, tgts, b, idx, calls, res, resp) ==
  [pc |-> pc, request |-> req, targets |-> tgts, body |-> b, idx |-> idx, calls |-> calls,
   results |-> res, resp |-> resp]

NoFlight == Flight("idle", NoRequest, <<>>, NoBody, 0, <<>>, <<>>, None)

Slots == 1..MaxRequests

ServingIdle == inflight = [i \in Slots |-> NoFlight]

NotifyInit ==
  /\ environ = NoMap
  /\ raw_api_key \in {None, Some(<<>>), Some(<<"k">>)}
  /\ api_key = validate_api_key(raw_api_key, environ)
  /\ registry = Registry0
  /\ NotifyIdle
  /\ ServingIdle

\* A notification request arrives and runs to its first await or its response.
NotifyReceive ==
  /\ npc = "idle"
  /\ \E req \in Requests : \E format_raises \in BOOLEAN :
       LET r == notify_start(api_key, registry, req, format_raises)
       IN /\ request' = req
          /\ npc' = r.pc
          /\ nresp' = r.resp
          /\ registry' = r.registry
          /\ targets' = r.targets
          /\ body' = r.body
          /\ ncalls' = r.calls
          /\ nidx' = IF r.pc = "await_delivery" THEN 1 ELSE 0
  /\ UNCHANGED <<api_key, delivered, nfailed, results>>

\* The awaited bot call raises.
DeliveryRaises ==
  /\ npc = "await_delivery"
  /\ LET r == on_delivery_raised(targets, nidx, results, body)
     IN /\ npc' = r.pc
        /\ nresp' = r.resp
        /\ nidx' = r.idx
        /\ ncalls' = IF IsSome(r.call) THEN Append(ncalls, Val(r.call)) ELSE ncalls
  /\ nfailed' = nfailed \cup {nidx}
  /\ UNCHANGED <<api_key, registry, request, targets, body, delivered, results>>

\* The awaited bot call returns.
DeliveryReturns ==
  /\ npc = "await_delivery"
  /\ \E result \in BotResults(ncalls[Len(ncalls)].op) :
       LET r == on_delivery_returned(targets, nidx, results, body, result)
       IN /\ npc' = r.pc
          /\ nresp' = r.resp
          /\ nidx' = r.idx
          /\ results' = r.results
          /\ ncalls' = IF IsSome(r.call) THEN Append(ncalls, Val(r.call)) ELSE ncalls
  /\ delivered' = delivered \cup {nidx}
  /\ UNCHANGED <<api_key, registry, request, targets, body, nfailed>>

\* The response has been sent; the server waits for the next request.
NotifyReturn ==
  /\ npc = "done"
  /\ npc' = "idle"
  /\ request' = NoRequest
  /\ targets' = <<>>
  /\ body' = NoBody
  /\ nidx' = 0
  /\ ncalls' = <<>>
  /\ delivered' = {}
  /\ nfailed' = {}
  /\ results' = <<>>
  /\ nresp' = None
  /\ UNCHANGED <<api_key, registry>>

----------------------------------------------------------------------------
(* get_field and build_inline_keyboard called on their own *)

\* JSON values met along a dotted path
FieldValues ==
  { JNull, JNum(5), JStr(<<"s">>), JMap(NoMap), JMap([b |-> JNum(5)]), JMap([b |-> JNull]),
    JMap([b |-> JMap([c |-> JNum(1)])]) }

FieldPayloads ==
  { [k \in K |-> IF k = "a" THEN va ELSE vx] :
      K \in SUBSET {"a", "x"}, va \in FieldValues, vx \in {JNull, JNum(7)} }

\* endpoint_config.field_map: no entry, an empty entry, or a dotted path
FieldMaps ==
  {NoMap} \cup
  { [x |-> path] : path \in { <<>>, <<"a">>, <<"x">>, <<"a", ".", "b">>,
                              <<"a", ".", "b", ".", "c">>, <<"a", ".", ".", "b">> } }

FieldDefaults == {JNull, JList(<<>>), JNum(9)}

GetFieldCall(payload, field_map, field, default, result, done) ==
  [payload |-> payload, field_map |-> field_map, field |-> field, default |-> default,
   result |-> result, done |-> done]

NoGetFieldCall == GetFieldCall(NoMap, NoMap, "", JNull, JNull, FALSE)

\* Buttons of a grid: url and callback_data, callback_data behind an empty
\* url, and neither
GridButtons ==
  { ButtonConfig(<<Lit(<<"g","o">>), Var("name")>>, Some(<<Lit(<<"u">>), Var("name")>>),
                 Some(<<Lit(<<"c">>)>>)),
    ButtonConfig(<<Lit(<<"o","k">>)>>, Some(<<>>), Some(<<Lit(<<"c">>), Var("name")>>)),
    ButtonConfig(<<Var("name")>>, None, None) }

Grids == SeqsUpTo(SeqsUpTo(GridButtons, MaxCols), MaxRows)

\* The payload of a notification, or the derived context of a command reply
GridContexts == {NoMap, [name |-> <<"z">>]}

KeyboardCall(buttons, payload, result, done) ==
  [buttons |-> buttons, payload |-> payload, result |-> result, done |-> done]

NoKeyboardCall == KeyboardCall(<<>>, NoMap, None, FALSE)

\* Characters of the texts that are escaped: the characters of the
\* MarkdownV2 class, the backslash, and characters of no class
EscapeChars == MARKDOWNV2_SPECIAL_CHARS \cup {"\\", "a", "$", "@"}

\* test_escape.py 19-23
OrderText == <<"O","r","d","e","r"," ","#","1","2","3",".">>

\* All texts of one or two characters, the texts of a few characters up to
\* MaxTextLen, and the text of the test
EscapeTexts ==
  {<<c>> : c \in EscapeChars} \cup (EscapeChars \X EscapeChars)
    \cup SeqsUpTo({"#", "_", "\\", "a"}, MaxTextLen) \cup {OrderText}

EscapeCall(mode, text, result, again, valid, done) ==
  [mode |-> mode, text |-> text, result |-> result, again |-> again, valid |-> valid,
   done |-> done]

NoEscapeCall == EscapeCall(<<>>, <<>>, <<>>, <<>>, TRUE, FALSE)

\* The escaper of a parse mode (escape.py 27-124)
escaper(mode, text) ==
  IF mode = MarkdownV2 THEN escape_markdown_v2(text) ELSE escape_markdown(text)

FunctionsIdle ==
  gf_call = NoGetFieldCall /\ kb_call = NoKeyboardCall /\ esc_call = NoEscapeCall

\* routes.py 95-96, 109, 129-130: a call of get_field
CallGetField ==
  /\ FunctionsIdle
  /\ \E payload \in FieldPayloads, field_map \in FieldMaps, field \in {"a", "x"},
        default \in FieldDefaults :
       gf_call' = GetFieldCall(payload, field_map, field, default,
                               get_field(field_map, payload, field, default), TRUE)
  /\ kb_call' = NoKeyboardCall
  /\ esc_call' = NoEscapeCall

\* routes.py 133, 240-245: a call of build_inline_keyboard
CallBuildKeyboard ==
  /\ FunctionsIdle
  /\ \E buttons \in Grids, payload \in GridContexts :
       kb_call' = KeyboardCall(buttons, payload,
                               build_inline_keyboard(buttons, payload, DOMAIN payload # {}),
                               TRUE)
  /\ gf_call' = NoGetFieldCall
  /\ esc_call' = NoEscapeCall

\* escape.py 27-124, 253-281: a text is escaped for a mode, the result is
\* escaped once more, and the result is validated for the mode
CallEscape ==
  /\ FunctionsIdle
  /\ \E mode \in {MarkdownV2, Markdown}, text \in EscapeTexts :
       LET result == escaper(mode, text)
       IN esc_call' = EscapeCall(mode, text, result, escaper(mode, result),
                                 validate_escaped_text(result, mode), TRUE)
  /\ gf_call' = NoGetFieldCall
  /\ kb_call' = NoKeyboardCall

\* The caller has the result; the next call can be made.
FunctionReturns ==
  /\ gf_call.done \/ kb_call.done \/ esc_call.done
  /\ gf_call' = NoGetFieldCall
  /\ kb_call' = NoKeyboardCall
  /\ esc_call' = NoEscapeCall

FunctionsNext ==
  \/ CallGetField /\ UNCHANGED <<wvars, nvars, svars>>
  \/ CallBuildKeyboard /\ UNCHANGED <<wvars, nvars, svars>>
  \/ CallEscape /\ UNCHANGED <<wvars, nvars, svars>>
  \/ FunctionReturns /\ UNCHANGED <<wvars, nvars, svars>>

WebhookIdle ==
  /\ callbacks = <<>>
  /\ commands = <<>>
  /\ wpc = "idle"
  /\ update = NoUpdate
  /\ wcalls = <<>>
  /\ wresp = None
  /\ wraised = None
  /\ wmatched = 0
  /\ wbranch = "none"

NotifyNext ==
  \/ NotifyReceive /\ UNCHANGED <<wvars, pvars, svars>>
  \/ DeliveryRaises /\ UNCHANGED <<wvars, pvars, svars>>
  \/ DeliveryReturns /\ UNCHANGED <<wvars, pvars, svars>>
  \/ NotifyReturn /\ UNCHANGED <<wvars, pvars, svars>>

\* A config without server.api_key
NoKey ==
  /\ environ = NoMap /\ raw_api_key = None
  /\ api_key = validate_api_key(raw_api_key, environ)
  /\ ServingIdle

\* The process serving notification requests only
InitNotify == NotifyInit /\ WebhookIdle /\ FunctionsIdle

SpecNotify == InitNotify /\ [][NotifyNext]_vars

\* The process serving webhook updates only
InitWebhook ==
  WebhookInit /\ NoKey /\ registry = Registry0 /\ NotifyIdle /\ FunctionsIdle

SpecWebhook == InitWebhook /\ [][WebhookNext]_vars

----------------------------------------------------------------------------
(* Notification requests served concurrently: each coroutine runs from one
   await to the next without interleaving, and the coroutines share api_key
   and the registry *)

PlaceholderKey == <<"$", "{", "K", "}">>

RawKeys == {None, Some(<<"k">>), Some(PlaceholderKey)}

Environs == {NoMap, [K |-> "k"]}

\* Requests to the two endpoints that share the formatter "plain"
ServingRequests == {Request(e, NoMap, k) : e \in {1, 2}, k \in {None, Some("k"), Some("x")}}

\* The locals of the other requests, and everything that is not a request's
nreq == <<npc, request, targets, body, nidx, ncalls, delivered, nfailed, results, nresp>>

ServingInit ==
  /\ environ \in Environs
  /\ raw_api_key \in RawKeys
  /\ api_key = validate_api_key(raw_api_key, environ)
  /\ registry = Registry0
  /\ ServingIdle

\* routes.py 86-137: a request arrives while others are awaiting
Arrive(i) ==
  /\ inflight[i].pc = "idle"
  /\ \E req \in ServingRequests :
       LET r == notify_start(api_key, registry, req, FALSE)
       IN /\ registry' = r.registry
          /\ inflight' = [inflight EXCEPT ![i] =
               Flight(r.pc, req, r.targets, r.body,
                      IF r.pc = "await_delivery" THEN 1 ELSE 0, r.calls, <<>>, r.resp)]

\* routes.py 171-173: the bot call a request awaits raises
BotRaises(i) ==
  /\ inflight[i].pc = "await_delivery"
  /\ LET f == inflight[i]
         r == on_delivery_raised(f.targets, f.idx, f.results, f.body)
     IN inflight' = [inflight EXCEPT ![i] =
          Flight(r.pc, f.request, f.targets, f.body, r.idx, f.calls, f.results, r.resp)]
  /\ UNCHANGED registry

\* routes.py 137-167: the bot call a request awaits returns
BotReturns(i) ==
  /\ inflight[i].pc = "await_delivery"
  /\ LET f == inflight[i]
         r == on_delivery_returned(f.targets, f.idx, f.results, f.body,
                                   BotResult("message", Some(41)))
     IN inflight' = [inflight EXCEPT ![i] =
          Flight(r.pc, f.request, f.targets, f.body, r.idx,
                 IF IsSome(r.call) THEN Append(f.calls, Val(r.call)) ELSE f.calls,
                 r.results, r.resp)]
  /\ UNCHANGED registry

\* The response of a request has been sent.
Respond(i) ==
  /\ inflight[i].pc = "done"
  /\ inflight' = [inflight EXCEPT ![i] = NoFlight]
  /\ UNCHANGED registry

ServingNext ==
  \/ \E i \in Slots : Arrive(i) /\ UNCHANGED <<wvars, pvars, nreq, api_key, raw_api_key, environ>>
  \/ \E i \in Slots : BotRaises(i) /\ UNCHANGED <<wvars, pvars, nreq, api_key, raw_api_key, environ>>
  \/ \E i \in Slots : BotReturns(i) /\ UNCHANGED <<wvars, pvars, nreq, api_key, raw_api_key, environ>>
  \/ \E i \in Slots : Respond(i) /\ UNCHANGED <<wvars, pvars, nreq, api_key, raw_api_key, environ>>

InitServing == ServingInit /\ WebhookIdle /\ NotifyIdle /\ FunctionsIdle

SpecServing == InitServing /\ [][ServingNext]_vars

\* The two functions exercised directly, with no request in progress
InitFunctions ==
  WebhookIdle /\ NoKey /\ registry = Registry0 /\ NotifyIdle /\ FunctionsIdle

SpecFunctions == InitFunctions /\ [][FunctionsNext]_vars

----------------------------------------------------------------------------
(* Properties of the notification fan-out *)

SendOps == {"send_message", "send_photo", "send_media_group"}

\* C1: when the delivery to the k-th destination raises, the request is
\* over: no delivery to a later destination is attempted, and the response
\* is the single failure 500 send_failed, which carries no results list.
C1_FirstFailureAborts ==
  nfailed # {} =>
    /\ npc = "done"
    /\ \E k \in 1..Len(targets) :
         /\ nfailed = {k}
         /\ Len(ncalls) = k
         /\ \A i \in 1..Len(ncalls) : ncalls[i].pos <= k
         /\ delivered = 1..(k-1)
    /\ nresp = Some([status |-> 500, kind |-> "send_failed", message |-> Some("BotError"),
                     results |-> None])

C1_Witness ==
  /\ npc = "done" /\ Len(targets) = 3
  /\ nfailed = {2} /\ delivered = {1} /\ Len(results) = 1
  /\ Val(nresp).results = None

\* C2: when every delivery succeeds the response is {status: "sent", results}
\* with one entry per resolved destination, the i-th entry carrying the
\* chat_id of the i-th destination.
C2_ResultsFollowDestinations ==
  (npc = "done" /\ targets # <<>> /\ delivered = 1..Len(targets)) =>
    /\ IsSome(nresp)
    /\ Val(nresp).status = 200 /\ Val(nresp).kind = "sent"
    /\ IsSome(Val(nresp).results)
    /\ LET res == Val(Val(nresp).results)
       IN /\ Len(res) = Len(targets)
          /\ \A i \in 1..Len(res) :
               /\ res[i].chat_id = targets[i]
               /\ ncalls[i].chat_id = targets[i]

C2_Witness ==
  /\ npc = "done" /\ Len(targets) = 3 /\ delivered = {1, 2, 3}
  /\ targets[1] # targets[2] /\ targets[3] = targets[1]
  /\ Val(nresp).kind = "sent"
  /\ Len(Val(Val(nresp).results)) = 3

\* The calls issued so far are the deliveries to the first destinations, one
\* each and in order; only the last one can still be awaited.
AttemptsArePrefix ==
  /\ Len(ncalls) <= Len(targets)
  /\ \A i \in 1..Len(ncalls) :
       /\ ncalls[i].op \in SendOps
       /\ ncalls[i].pos = i
       /\ ncalls[i].chat_id = targets[i]
       /\ i < Len(ncalls) => i \in delivered
  /\ delivered \subseteq 1..Len(ncalls)
  /\ npc = "await_delivery" => (ncalls # <<>> /\ Len(ncalls) \notin delivered \cup nfailed)

\* While a request is in progress the calls issued and the deliveries made
\* only grow: a failure removes nothing.
NothingRetracted ==
  npc = "await_delivery" =>
    /\ delivered \subseteq delivered'
    /\ Len(ncalls') >= Len(ncalls)
    /\ SubSeq(ncalls', 1, Len(ncalls)) = ncalls
    /\ nfailed' # nfailed => delivered' = delivered

\* C3: the destinations attempted form a prefix of the resolved list, each
\* attempted at most once and one at a time, and a delivery already made is
\* not retracted by a later failure.
C3_PrefixOnceNoRetraction == [](AttemptsArePrefix) /\ [][NothingRetracted]_vars

C3_Witness ==
  /\ npc = "done" /\ Len(targets) = 3 /\ targets[1] = targets[2]
  /\ nfailed = {3} /\ delivered = {1, 2} /\ Len(ncalls) = 3

----------------------------------------------------------------------------
(* Properties of get_field and build_inline_keyboard *)

\* The value a payload holds at a dotted path, if every segment is there.
RECURSIVE ValueAt(_, _)
ValueAt(value, keys) ==
  IF keys = <<>> THEN Some(value)
  ELSE IF value[1] # "map" THEN None
  ELSE IF Join(Head(keys)) \notin DOMAIN value[2] THEN None
  ELSE ValueAt(value[2][Join(Head(keys))], Tail(keys))

MappedCall ==
  /\ gf_call.done
  /\ gf_call.field \in DOMAIN gf_call.field_map
  /\ gf_call.field_map[gf_call.field] # <<>>

MappedValue ==
  ValueAt(JMap(gf_call.payload), split_on(gf_call.field_map[gf_call.field], "."))

\* C17 as stated: a mapped path that is fully present gives the value at the
\* path, whatever that value is, and any other mapped path gives the default.
C17_ResolverTotal_AsStated ==
  /\ gf_call.done => gf_call.result[1] # "raise"
  /\ MappedCall =>
       IF IsSome(MappedValue) THEN gf_call.result = Val(MappedValue)
       ELSE gf_call.result = gf_call.default

\* C17: get_field never raises; for a mapped path it returns the value at
\* the path when every segment is present and that value is not null, and
\* the default otherwise (absent segment, non-mapping on the way, null value).
C17_ResolverTotal ==
  /\ gf_call.done => gf_call.result[1] # "raise"
  /\ MappedCall =>
       IF IsSome(MappedValue) /\ Val(MappedValue) # JNull
         THEN gf_call.result = Val(MappedValue)
         ELSE gf_call.result = gf_call.default

C17_Witness ==
  /\ MappedCall
  /\ gf_call.field_map[gf_call.field] = <<"a", ".", "b", ".", "c">>
  /\ "a" \in DOMAIN gf_call.payload /\ gf_call.payload["a"] = JMap([b |-> JNum(5)])
  /\ gf_call.default = JNum(9)
  /\ gf_call.result = JNum(9)

\* C18: a logical field without a field-map entry, looked up directly as the
\* top-level key k, resolves as a field mapped to the one-segment path k does.
C18_DirectDefaultsLikeMapped ==
  (gf_call.done /\ gf_call.field \notin DOMAIN gf_call.field_map) =>
    gf_call.result = get_field([y |-> <<gf_call.field>>], gf_call.payload, "y",
                               gf_call.default)

\* The text the builder puts on a button
ExpectedText(t, ctx) == IF DOMAIN ctx # {} THEN Render(t, ctx) ELSE Source(t)

\* C19: no keyboard for an empty grid; otherwise as many rows as configured,
\* as many buttons in each row, and the button configured at (i, j) at (i, j).
C19_KeyboardKeepsGrid ==
  kb_call.done =>
    IF kb_call.buttons = <<>> THEN kb_call.result = None
    ELSE /\ IsSome(kb_call.result)
         /\ Len(Val(kb_call.result)) = Len(kb_call.buttons)
         /\ \A i \in 1..Len(kb_call.buttons) :
              /\ Len(Val(kb_call.result)[i]) = Len(kb_call.buttons[i])
              /\ \A j \in 1..Len(kb_call.buttons[i]) :
                   Val(kb_call.result)[i][j].text =
                     ExpectedText(kb_call.buttons[i][j].text, kb_call.payload)

C19_Witness ==
  /\ kb_call.done /\ IsSome(kb_call.result)
  /\ DOMAIN kb_call.payload # {}
  /\ Len(kb_call.buttons) = 2
  /\ Len(kb_call.buttons[1]) = 2 /\ Len(kb_call.buttons[2]) = 0
  /\ kb_call.buttons[1][1].text # kb_call.buttons[1][2].text
  /\ Len(Val(kb_call.result)) = 2 /\ Len(Val(kb_call.result)[1]) = 2
  /\ Val(kb_call.result)[1][1].text = <<"o","k">>
  /\ Val(kb_call.result)[1][2].text = <<"g","o","z">>

\* C20: an entry never carries both url and callback_data: url alone when
\* the button has a url, callback_data alone when it has only that, neither
\* when it has neither.
C20_OneActionPerButton ==
  (kb_call.done /\ IsSome(kb_call.result)) =>
    \A i \in 1..Len(kb_call.buttons) : \A j \in 1..Len(kb_call.buttons[i]) :
      LET btn == kb_call.buttons[i][j]
          entry == Val(kb_call.result)[i][j]
      IN /\ ~(IsSome(entry.url) /\ IsSome(entry.callback_data))
         /\ Truthy(btn.url) =>
              /\ entry.url = Some(ExpectedText(Val(btn.url), kb_call.payload))
              /\ entry.callback_data = None
         /\ (~Truthy(btn.url) /\ Truthy(btn.callback_data)) =>
              /\ entry.url = None
              /\ entry.callback_data =
                   Some(ExpectedText(Val(btn.callback_data), kb_call.payload))
         /\ (~Truthy(btn.url) /\ ~Truthy(btn.callback_data)) =>
              entry.url = None /\ entry.callback_data = None

C20_Witness ==
  /\ kb_call.done /\ IsSome(kb_call.result)
  /\ DOMAIN kb_call.payload # {}
  /\ Len(kb_call.buttons) = 1 /\ Len(kb_call.buttons[1]) = 2
  /\ Truthy(kb_call.buttons[1][1].url) /\ Truthy(kb_call.buttons[1][1].callback_data)
  /\ ~Truthy(kb_call.buttons[1][2].url) /\ Truthy(kb_call.buttons[1][2].callback_data)
  /\ Val(kb_call.result)[1][1].url = Some(<<"u","z">>)
  /\ Val(kb_call.result)[1][1].callback_data = None
  /\ Val(kb_call.result)[1][2].callback_data = Some(<<"c","z">>)

\* C21: for every context, the empty mapping included, the text of an entry
\* and its url or callback_data are the configured strings rendered against
\* the context; no configured template string comes out unrendered.
C21_AlwaysRendered ==
  (kb_call.done /\ IsSome(kb_call.result)) =>
    \A i \in 1..Len(kb_call.buttons) : \A j \in 1..Len(kb_call.buttons[i]) :
      LET btn == kb_call.buttons[i][j]
          entry == Val(kb_call.result)[i][j]
      IN /\ entry.text = Render(btn.text, kb_call.payload)
         /\ IsSome(entry.url) => entry.url = Some(Render(Val(btn.url), kb_call.payload))
         /\ IsSome(entry.callback_data) =>
              entry.callback_data = Some(Render(Val(btn.callback_data), kb_call.payload))

----------------------------------------------------------------------------
(* Properties of a notification request before and at its deliveries *)

InRequest == npc # "idle"

TheEndpoint == endpoints[request.endpoint]

KeyConfigured == IsSome(api_key) /\ Val(api_key) # ""

KeyRejected == KeyConfigured /\ request.x_api_key # api_key

ErrorResponse(status, error) ==
  Some([status |-> status, kind |-> error, message |-> None, results |-> None])

ResponseKindIs(kind) == IsSome(nresp) /\ Val(nresp).kind = kind

\* C11: with a key configured, a request whose X-Api-Key header is absent or
\* different ends with 401 invalid_api_key before destinations are resolved
\* or a message is composed, and without any bot call.
C11_BadKeyRejectedFirst ==
  (InRequest /\ KeyRejected) =>
    /\ npc = "done"
    /\ nresp = ErrorResponse(401, "invalid_api_key")
    /\ targets = <<>>
    /\ body = NoBody
    /\ ncalls = <<>> /\ delivered = {} /\ nfailed = {}

C11_Witness ==
  /\ npc = "done"
  /\ api_key = Some("k") /\ request.x_api_key = None
  /\ request.endpoint = 1
  /\ nresp = ErrorResponse(401, "invalid_api_key")
  /\ ncalls = <<>>

\* The payload's own destinations and the endpoint's are all empty.
NoDestination == ~truthy(resolve_targets(TheEndpoint, request.payload))

\* C12: an empty resolved destination list ends the request with 400
\* no_chat_id, not with 500 send_failed, and no bot call is ever issued while
\* the resolved list is empty.
C12_NoDestinationFailsFast ==
  (InRequest /\ ~KeyRejected) =>
    /\ NoDestination =>
         /\ npc = "done"
         /\ nresp = ErrorResponse(400, "no_chat_id")
         /\ ncalls = <<>>
    /\ ncalls # <<>> => (targets # <<>> /\ ~NoDestination)

C12_Witness ==
  /\ npc = "done"
  /\ request.endpoint = 4
  /\ "chat_ids" \in DOMAIN request.payload /\ request.payload["chat_ids"] = JList(<<>>)
  /\ nresp = ErrorResponse(400, "no_chat_id")
  /\ ncalls = <<>>

\* A payload field that holds a non-empty value
HasValue(field) ==
  /\ field \in DOMAIN request.payload
  /\ truthy(request.payload[field])

ExpectedShape ==
  IF HasValue("image_urls") THEN "send_media_group"
  ELSE IF HasValue("image_url") THEN "send_photo"
  ELSE "send_message"

\* C13: every bot call of a request has the one shape its payload selects:
\* the photo group when image_urls is non-empty (whether or not image_url is
\* there too), else the single photo when image_url has a value, else text.
C13_OneDeliveryShape ==
  \A i \in 1..Len(ncalls) :
    /\ ncalls[i].op = ExpectedShape
    /\ ncalls[i].op = "send_media_group" => ncalls[i].photo = request.payload["image_urls"]
    /\ ncalls[i].op = "send_photo" => ncalls[i].photo = request.payload["image_url"]
    /\ ncalls[i].op = "send_message" => ncalls[i].photo = JNull

C13_Witness ==
  /\ npc = "done" /\ ResponseKindIs("sent")
  /\ HasValue("image_urls") /\ HasValue("image_url")
  /\ Len(ncalls) = 2
  /\ ncalls[1].op = "send_media_group" /\ ncalls[2].op = "send_media_group"

TemplateNamedAndLoaded ==
  IsSome(TheEndpoint.template) /\ Val(TheEndpoint.template) \in DOMAIN templates

\* C14: the template is used exactly when the endpoint names one that is
\* loaded, whatever its formatter name; otherwise the named formatter is
\* used, and when the registry has none of that name the request ends with
\* 500 formatter_not_found and no bot call.
C14_CompositionOrder ==
  (InRequest /\ ~KeyRejected /\ ~NoDestination) =>
    IF TemplateNamedAndLoaded
      THEN /\ ~ResponseKindIs("formatter_not_found")
           /\ \A i \in 1..Len(ncalls) : ncalls[i].text.via = "template"
    ELSE IF TheEndpoint.formatter \notin DOMAIN registry
      THEN /\ npc = "done"
           /\ nresp = ErrorResponse(500, "formatter_not_found")
           /\ ncalls = <<>> /\ delivered = {}
    ELSE /\ ~ResponseKindIs("formatter_not_found")
         /\ \A i \in 1..Len(ncalls) :
              /\ ncalls[i].text.via = "formatter"
              /\ ncalls[i].text.formatter = TheEndpoint.formatter

C14_Witness ==
  /\ npc = "done" /\ ResponseKindIs("sent")
  /\ TemplateNamedAndLoaded
  /\ TheEndpoint.formatter \notin DOMAIN registry
  /\ Len(ncalls) = 3
  /\ ncalls[3].text.via = "template"

PayloadParseMode ==
  IF "parse_mode" \in DOMAIN TheEndpoint.field_map
    THEN ValueAt(JMap(request.payload), split_on(TheEndpoint.field_map["parse_mode"], "."))
  ELSE IF "parse_mode" \in DOMAIN request.payload THEN Some(request.payload["parse_mode"])
  ELSE None

ExpectedParseMode ==
  IF IsSome(PayloadParseMode) /\ truthy(Val(PayloadParseMode)) THEN Val(PayloadParseMode)
  ELSE IF IsSome(TheEndpoint.parse_mode) THEN JStr(Val(TheEndpoint.parse_mode))
  ELSE JNull

\* C16: every bot call of a request carries the same parse mode: the
\* payload's parse_mode when it has a value, else the endpoint's, else none.
C16_ParseModePrecedence ==
  \A i \in 1..Len(ncalls) : ncalls[i].parse_mode = ExpectedParseMode

C16_Witness ==
  /\ npc = "done" /\ ResponseKindIs("sent")
  /\ request.endpoint = 2
  /\ HasValue("parse_mode")
  /\ Len(ncalls) = 2
  /\ ncalls[1].parse_mode = JStr(<<"M","a","r","k","d","o","w","n">>)
  /\ ncalls[2].parse_mode = JStr(<<"M","a","r","k","d","o","w","n">>)

----------------------------------------------------------------------------
(* Properties of the webhook handler *)

MinOf(S) == CHOOSE i \in S : \A j \in S : i <= j

\* The request being handled, read back from the update.
TheQuery == Val(update.callback_query)
TheMessage == Val(update.message)
QueryData == IF IsSome(TheQuery.data) THEN Val(TheQuery.data) ELSE <<>>
MessageText == Val(TheMessage.text).s

IsCallbackUpdate == update.json = "object" /\ IsSome(update.callback_query)
IsMessageUpdate ==
  update.json = "object" /\ ~IsSome(update.callback_query) /\ IsSome(update.message)

SenderUsable(from) == from = None \/ Val(from).ismap
SenderOf(from) == IF IsSome(from) THEN Val(from) ELSE EmptyUser

\* The longest prefix of s holding neither whitespace nor "@".
LeadingToken(s) ==
  SubSeq(s, 1, CHOOSE k \in 0..Len(s) :
                 /\ \A i \in 1..k : s[i] \notin {" ", "@"}
                 /\ (k = Len(s) \/ s[k+1] \in {" ", "@"}))

EqualCallbacks == {i \in 1..Len(callbacks) : callbacks[i].data = QueryData}
EqualCommands(tok) == {i \in 1..Len(commands) : commands[i].command = tok}

CallsOf(op) == {i \in 1..Len(wcalls) : wcalls[i].op = op}

HasCommandText ==
  /\ IsMessageUpdate /\ TheMessage.ismap
  /\ IsSome(TheMessage.text) /\ Val(TheMessage.text).isstr
  /\ startswith(MessageText, "/")

HasPlainText ==
  /\ IsMessageUpdate /\ TheMessage.ismap
  /\ \/ TheMessage.text = None
     \/ Val(TheMessage.text).isstr /\ ~startswith(MessageText, "/")

\* C4: the webhook handler always ends with a response, {ok: true} or
\* {ok: false, error}, and the latter exactly when processing raised: a body
\* that is not JSON, a missing required field and a failing bot call all end
\* in {ok: false}.
C4_WebhookAlwaysAnswers ==
  wpc = "done" =>
    /\ IsSome(wresp)
    /\ \/ Val(wresp) = [ok |-> TRUE]
       \/ DOMAIN Val(wresp) = {"ok", "error"} /\ Val(wresp).ok = FALSE
    /\ (Val(wresp).ok = FALSE) <=> IsSome(wraised)
    /\ update.json = "invalid" => Val(wresp).ok = FALSE
    /\ (IsCallbackUpdate /\ TheQuery.id = None) => Val(wresp).ok = FALSE
    /\ (IsMessageUpdate /\ TheMessage.chat_id = None) => Val(wresp).ok = FALSE

C4_Witness ==
  /\ wpc = "done" /\ IsMessageUpdate
  /\ Len(wcalls) = 1 /\ wcalls[1].op = "send_message"
  /\ wraised = Some("BotError")
  /\ Val(wresp) = [ok |-> FALSE, error |-> "BotError"]

\* C5: the handler acted on is the lowest-indexed one whose data (command)
\* equals the incoming data (command token); a later handler with the same
\* value and a handler whose value is only a prefix are never acted on.
C5_FirstExactMatchWins ==
  /\ (wbranch = "callback" /\ wcalls # <<>>) =>
       /\ wcalls[1].op = "answer_callback_query"
       /\ IF EqualCallbacks = {}
            THEN wcalls[1].text = None /\ Len(wcalls) = 1
            ELSE LET h == callbacks[MinOf(EqualCallbacks)]
                 IN /\ wcalls[1].text = h.response
                    /\ Len(wcalls) <= 2
                    /\ Len(wcalls) = 2 =>
                         /\ wcalls[2].op = "post"
                         /\ Truthy(h.url)
                         /\ wcalls[2].to = Val(h.url)
                    /\ (~Truthy(h.url)) => Len(wcalls) = 1
  /\ (wbranch = "message" /\ wcalls # <<>>) =>
       LET tok == LeadingToken(MessageText)
       IN /\ EqualCommands(tok) # {}
          /\ LET h == commands[MinOf(EqualCommands(tok))]
             IN /\ Truthy(h.response)
                /\ wcalls[1].op = "send_message"
                /\ wcalls[1].text =
                     Some(Render(Val(h.response),
                                 command_context(SenderOf(TheMessage.from),
                                                 wcalls[1].to, tok)))
                /\ wcalls[1].parse_mode = h.parse_mode

C5_Witness ==
  /\ wbranch = "callback" /\ Len(wcalls) = 1 /\ wpc = "done"
  /\ Len(callbacks) = 2
  /\ callbacks[1].data = QueryData /\ callbacks[2].data = QueryData
  /\ callbacks[1].response # callbacks[2].response
  /\ wcalls[1].text = callbacks[1].response

\* C6 as stated: every callback-query update that carries an id has
\* answer_callback_query invoked exactly once, with the matched handler's
\* response text, or with no text when no handler matches.
C6_AckExactlyOnce_AsStated ==
  (wpc = "done" /\ IsCallbackUpdate /\ TheQuery.ismap /\ IsSome(TheQuery.id)) =>
    /\ Cardinality(CallsOf("answer_callback_query")) = 1
    /\ wcalls[1].op = "answer_callback_query"

\* C6 amended: every callback-query update that carries an id, and whose
\* sender field is absent or a mapping, has answer_callback_query invoked
\* exactly once, first of all outbound calls, for that id, with the first
\* matching handler's response text, or with no text when none matches.
C6_AckExactlyOnce ==
  (wpc # "idle" /\ IsCallbackUpdate /\ TheQuery.ismap /\ IsSome(TheQuery.id)
     /\ SenderUsable(TheQuery.from)) =>
    /\ Cardinality(CallsOf("answer_callback_query")) = 1
    /\ wcalls[1].op = "answer_callback_query"
    /\ wcalls[1].to = Val(TheQuery.id)
    /\ wcalls[1].text = IF EqualCallbacks = {} THEN None
                        ELSE callbacks[MinOf(EqualCallbacks)].response

C6_Witness ==
  /\ wpc = "done" /\ IsCallbackUpdate /\ TheQuery.ismap /\ IsSome(TheQuery.id)
  /\ SenderUsable(TheQuery.from)
  /\ callbacks # <<>> /\ EqualCallbacks = {}
  /\ wcalls = <<Call("answer_callback_query", Val(TheQuery.id), None, None, None, None)>>
  /\ wresp = Some([ok |-> TRUE])

\* The forwarding POST of a matched handler was issued and raised.
ForwardingFailed ==
  /\ wpc = "done" /\ wbranch = "callback"
  /\ Len(wcalls) = 2 /\ wcalls[2].op = "post"
  /\ wraised = Some("ClientError")

\* C7 as stated: when the forwarding POST of a matched handler raises, the
\* handler still returns {ok: true}.
C7_PostFailureStillOk_AsStated ==
  ForwardingFailed => wresp = Some([ok |-> TRUE])

\* C7 amended: when the forwarding POST of a matched handler raises, no
\* exception leaves the handler and the acknowledgment already issued stands,
\* but the response is the failure envelope {ok: false, error}.
C7_PostFailureReported ==
  ForwardingFailed =>
    /\ wresp = Some([ok |-> FALSE, error |-> "ClientError"])
    /\ wcalls[1].op = "answer_callback_query"
    /\ Truthy(callbacks[MinOf(EqualCallbacks)].url)

C7_Witness ==
  /\ ForwardingFailed
  /\ wresp = Some([ok |-> FALSE, error |-> "ClientError"])

\* The decimal text of the chat ids of the model.
DecimalOf(n) == IF n = 7 THEN <<"7">> ELSE <<"-", "1", "2">>

\* A command message whose fields can all be read, whose first matching
\* handler has a response template, and whose templates are well-formed.
CommandWithTemplate ==
  /\ wpc # "idle" /\ HasCommandText
  /\ IsSome(TheMessage.chat_id) /\ SenderUsable(TheMessage.from)
  /\ EqualCommands(LeadingToken(MessageText)) # {}
  /\ LET h == commands[MinOf(EqualCommands(LeadingToken(MessageText)))]
     IN /\ Truthy(h.response)
        /\ ~TemplateRaises(Val(h.response))
        /\ ~KeyboardRaises(h.buttons, TRUE)

MatchedCommand == commands[MinOf(EqualCommands(LeadingToken(MessageText)))]

RenderedReply ==
  Render(Val(MatchedCommand.response),
         [user |-> SenderOf(TheMessage.from),
          chat_id |-> DecimalOf(Val(TheMessage.chat_id)),
          first_name |-> user_get(SenderOf(TheMessage.from), "first_name"),
          username |-> user_get(SenderOf(TheMessage.from), "username"),
          command |-> LeadingToken(MessageText)])

ExactlyOneReply ==
  /\ Len(wcalls) = 1
  /\ wcalls[1].op = "send_message"
  /\ wcalls[1].to = DecimalOf(Val(TheMessage.chat_id))
  /\ wcalls[1].text = Some(RenderedReply)

TokenExamples ==
  /\ command_token(<<"/","s","t","a","r","t","@","m","y","b","o","t"," ","h","e","l","l","o">>)
       = <<"/","s","t","a","r","t">>
  /\ command_token(<<"/","h","e","l","p">>) = <<"/","h","e","l","p">>

NoReplyCase ==
  \/ HasPlainText
  \/ /\ HasCommandText
     /\ LET M == EqualCommands(LeadingToken(MessageText))
        IN M = {} \/ ~Truthy(commands[MinOf(M)].response)

SilentNoOp == wpc = "done" /\ wcalls = <<>> /\ wresp = Some([ok |-> TRUE])

\* C9 as stated: a message update in one of the three cases is a silent
\* no-op: no outbound call and the response {ok: true}.
C9_SilentNoOp_AsStated ==
  (wpc # "idle" /\ NoReplyCase) => SilentNoOp

\* C9 amended: a message update that carries its chat id, and whose sender is
\* absent or a mapping when its text begins with "/", is a silent no-op in
\* each of the three cases; without those fields there is still no outbound
\* call, and the response is {ok: false}.
C9_SilentNoOp ==
  (wpc # "idle" /\ NoReplyCase) =>
    /\ wcalls = <<>> /\ wpc = "done"
    /\ IF IsSome(TheMessage.chat_id) /\ (HasCommandText => SenderUsable(TheMessage.from))
         THEN wresp = Some([ok |-> TRUE])
         ELSE IsSome(wresp) /\ Val(wresp).ok = FALSE

C9_Witness ==
  /\ SilentNoOp /\ HasCommandText
  /\ Len(commands) = 2
  /\ commands[1].command = LeadingToken(MessageText)
  /\ commands[2].command = LeadingToken(MessageText)
  /\ ~Truthy(commands[1].response) /\ Truthy(commands[2].response)

\* C10: an update object with a callback-query field runs the callback
\* branch only (its message field is ignored), one with a message field and
\* no callback-query field runs the message branch only, and one with
\* neither is answered {ok: true} with no outbound call at all.
C10_Classification ==
  (wpc # "idle" /\ update.json = "object") =>
    /\ IsSome(update.callback_query) =>
         /\ wbranch = "callback"
         /\ CallsOf("send_message") = {}
    /\ IsMessageUpdate =>
         /\ wbranch = "message"
         /\ CallsOf("answer_callback_query") = {} /\ CallsOf("post") = {}
    /\ (update.callback_query = None /\ update.message = None) =>
         /\ wbranch = "none"
         /\ wpc = "done" /\ wcalls = <<>> /\ wresp = Some([ok |-> TRUE])

C10_Witness ==
  /\ wpc = "done" /\ update.json = "object"
  /\ IsSome(update.callback_query) /\ IsSome(update.message)
  /\ EqualCommands(<<"/","s">>) # {} /\ Truthy(commands[MinOf(EqualCommands(<<"/","s">>))].response)
  /\ Len(wcalls) = 1 /\ wcalls[1].op = "answer_callback_query"
  /\ wresp = Some([ok |-> TRUE])

----------------------------------------------------------------------------
(* Properties of the state the requests share, of the destinations and of
   the composition of a notification *)

\* C22: serving leaves the shared state as startup made it: no step of a
\* request changes the config, the registry or a formatter the registry holds.
C22_SharedStateReadOnly ==
  [][ /\ registry' = registry
      /\ api_key' = api_key
      /\ callbacks' = callbacks
      /\ commands' = commands ]_vars

\* What the request's payload holds for a logical field, through the
\* endpoint's field_map when it names the field
C23_PayloadField(field) ==
  LET fm == TheEndpoint.field_map
  IN IF field \in DOMAIN fm
       THEN ValueAt(JMap(request.payload), split_on(fm[field], "."))
     ELSE IF field \in DOMAIN request.payload THEN Some(request.payload[field])
     ELSE None

C23_Given(field) == IsSome(C23_PayloadField(field)) /\ truthy(Val(C23_PayloadField(field)))

C23_ConfiguredList ==
  (IF Truthy(TheEndpoint.chat_id) THEN <<JStr(Val(TheEndpoint.chat_id))>> ELSE <<>>)
    \o [i \in 1..Len(TheEndpoint.chat_ids) |-> JStr(TheEndpoint.chat_ids[i])]

C23_ExpectedTargets ==
  IF C23_Given("chat_ids") THEN Val(C23_PayloadField("chat_ids"))
  ELSE IF C23_Given("chat_id") THEN JList(<<Val(C23_PayloadField("chat_id"))>>)
  ELSE JList(C23_ConfiguredList)

\* C23: the destinations of a request are the payload's chat_ids when it is
\* non-empty, else the payload's one chat_id when it has a value, else the
\* endpoint's chat_id followed by its chat_ids as declared, duplicates kept;
\* the bot calls go to that list, position by position.
C23_ResolvedDestinations ==
  (InRequest /\ ncalls # <<>>) =>
    /\ Elements(C23_ExpectedTargets) = Some(targets)
    /\ \A i \in 1..Len(ncalls) : ncalls[i].chat_id = targets[ncalls[i].pos]

C23_Witness ==
  /\ npc = "done" /\ ResponseKindIs("sent")
  /\ request.endpoint = 3
  /\ ~C23_Given("chat_ids") /\ ~C23_Given("chat_id")
  /\ targets = <<JStr(<<"5">>), JStr(<<"6">>), JStr(<<"6">>)>>
  /\ Len(ncalls) = 3
  /\ ncalls[1].chat_id = JStr(<<"5">>) /\ ncalls[3].chat_id = JStr(<<"6">>)

\* The steps between the destinations and the first delivery that can raise
C26_TemplateFails ==
  TemplateNamedAndLoaded /\ TemplateRaises(templates[Val(TheEndpoint.template)])

C26_KeyboardFails ==
  /\ ~C26_TemplateFails
  /\ TemplateNamedAndLoaded \/ TheEndpoint.formatter \in DOMAIN registry
  /\ \E i \in 1..Len(TheEndpoint.buttons) : \E j \in 1..Len(TheEndpoint.buttons[i]) :
       LET btn == TheEndpoint.buttons[i][j]
       IN DOMAIN request.payload # {} /\
            \/ TemplateRaises(btn.text)
            \/ Truthy(btn.url) /\ TemplateRaises(Val(btn.url))
            \/ ~Truthy(btn.url) /\ Truthy(btn.callback_data)
                 /\ TemplateRaises(Val(btn.callback_data))

C26_FormatterFailed ==
  IsSome(nresp) /\ Val(nresp).message = Some("PluginError")

\* C26: the body and the keyboard are made before the first delivery: when
\* the template, the formatter or the keyboard raises, the request ends with
\* 500 send_failed and no bot call was made; and the calls of one request
\* all carry the one body, and the text calls the one keyboard.
C26_ComposedBeforeDelivery ==
  /\ (InRequest /\ ~KeyRejected /\ ~NoDestination
        /\ (C26_TemplateFails \/ C26_KeyboardFails \/ C26_FormatterFailed)) =>
       /\ npc = "done"
       /\ ResponseKindIs("send_failed")
       /\ ncalls = <<>> /\ delivered = {}
  /\ \A i \in 1..Len(ncalls) :
       /\ ncalls[i].text = body.message
       /\ ncalls[i].parse_mode = body.parse_mode
       /\ ncalls[i].op = "send_message" => ncalls[i].reply_markup = body.reply_markup

C26_Witness ==
  /\ npc = "done"
  /\ request.endpoint = 7
  /\ "image_url" \in DOMAIN request.payload
  /\ C26_KeyboardFails
  /\ nresp = Some(send_failed("TemplateSyntaxError"))
  /\ ncalls = <<>>

\* C27: a photo-group call and a single-photo call carry no keyboard, also
\* when the endpoint has buttons and a keyboard was built for the request.
C27_KeyboardOnTextOnly ==
  \A i \in 1..Len(ncalls) :
    ncalls[i].op \in {"send_media_group", "send_photo"} => ncalls[i].reply_markup = None

C27_Witness ==
  /\ npc = "done" /\ ResponseKindIs("sent")
  /\ TheEndpoint.buttons # <<>>
  /\ IsSome(body.reply_markup)
  /\ Len(ncalls) = 2
  /\ ncalls[1].op = "send_photo" /\ ncalls[1].reply_markup = None
  /\ ncalls[2].op = "send_photo" /\ ncalls[2].reply_markup = None

----------------------------------------------------------------------------
(* Order of the acknowledgment and the forwarding POST *)

\* C28: in the callback branch a POST is issued only after the
\* acknowledgment of the matched handler was issued and has returned; an
\* update causes at most one POST, to the url of the first handler whose data
\* equals the callback data; when the acknowledgment raises there is no POST.
C28_AckBeforePost ==
  /\ \A i \in CallsOf("post") :
       /\ wbranch = "callback"
       /\ \E j \in 1..(i - 1) : wcalls[j].op = "answer_callback_query"
       /\ EqualCallbacks # {}
       /\ Truthy(callbacks[MinOf(EqualCallbacks)].url)
       /\ wcalls[i].to = Val(callbacks[MinOf(EqualCallbacks)].url)
  /\ Cardinality(CallsOf("post")) <= 1
  /\ wpc = "await_answer" => CallsOf("post") = {}
  /\ (wbranch = "callback" /\ wraised = Some("BotError")) => CallsOf("post") = {}

C28_Witness ==
  /\ wpc = "done" /\ wbranch = "callback"
  /\ Len(callbacks) = 2
  /\ EqualCallbacks = {1, 2}
  /\ Truthy(callbacks[1].url) /\ Truthy(callbacks[2].url)
  /\ Len(wcalls) = 2
  /\ wcalls[1].op = "answer_callback_query" /\ wcalls[2].op = "post"
  /\ wresp = Some([ok |-> TRUE])

----------------------------------------------------------------------------
(* Properties of the escapers *)

\* The 18 characters MarkdownV2 escapes
C24_Special ==
  {"_", "*", "[", "]", "(", ")", "~", Grave, ">", "#", "+", "-", "=", "|", "{", "}", ".", "!"}

C24_SpecialUpTo(t, i) == Cardinality({j \in 1..i : t[j] \in C24_Special})

\* C24: the MarkdownV2 escaper keeps every character of the text, in order,
\* and puts exactly one backslash before each of the 18 special characters
\* and nothing else ("Order #123." gives "Order \#123\."); escaping a text
\* that holds a special character a second time gives a different text, with
\* that many backslashes more.
C24_SinglePassNotIdempotent ==
  (esc_call.done /\ esc_call.mode = MarkdownV2) =>
    LET t == esc_call.text
        r == esc_call.result
        n == C24_SpecialUpTo(t, Len(t))
    IN /\ Cardinality(C24_Special) = 18
       /\ Len(r) = Len(t) + n
       /\ \A i \in 1..Len(t) :
            /\ r[i + C24_SpecialUpTo(t, i)] = t[i]
            /\ t[i] \in C24_Special => r[i + C24_SpecialUpTo(t, i) - 1] = "\\"
       /\ t = OrderText => r = <<"O","r","d","e","r"," ","\\","#","1","2","3","\\",".">>
       /\ n > 0 => (esc_call.again # r /\ Len(esc_call.again) = Len(t) + 2 * n)

C24_Witness ==
  /\ esc_call.done /\ esc_call.mode = MarkdownV2
  /\ esc_call.text = OrderText
  /\ esc_call.result = <<"O","r","d","e","r"," ","\\","#","1","2","3","\\",".">>
  /\ esc_call.again =
       <<"O","r","d","e","r"," ","\\","\\","#","1","2","3","\\","\\",".">>

C30_ModeSpecial ==
  IF esc_call.mode = MarkdownV2 THEN C24_Special ELSE {"_", "*", Grave, "["}

\* C30: what an escaper returns validates for the escaper's mode: every
\* special character of the mode in it stands right after a backslash, also
\* when the text escaped already held backslashes.
C30_EscapedTextValidates ==
  esc_call.done =>
    /\ esc_call.valid
    /\ \A i \in 1..Len(esc_call.result) :
         esc_call.result[i] \in C30_ModeSpecial =>
           (i > 1 /\ esc_call.result[i - 1] = "\\")

C30_Witness ==
  /\ esc_call.done /\ esc_call.mode = Markdown
  /\ esc_call.text = <<"\\", "[">>
  /\ esc_call.result = <<"\\", "\\", "[">>
  /\ esc_call.valid

----------------------------------------------------------------------------
(* Properties of concurrent notification requests and of the api key *)

Formatted(i) == inflight[i].pc # "idle" /\ inflight[i].body.message.via = "formatter"

\* C25: whatever the interleaving of the requests that share a formatter,
\* the message of a request is formatted with the labels of its own endpoint.
C25_OwnLabels ==
  \A i \in Slots :
    Formatted(i) =>
      inflight[i].body.message.labels = endpoints[inflight[i].request.endpoint].labels

C25_Witness ==
  /\ inflight[1].pc = "await_delivery" /\ inflight[2].pc = "await_delivery"
  /\ inflight[1].request.endpoint = 2 /\ inflight[2].request.endpoint = 1
  /\ endpoints[1].formatter = endpoints[2].formatter
  /\ inflight[1].idx = 2
  /\ inflight[1].body.message.labels = "L2"
  /\ inflight[2].body.message.labels = "L1"
  /\ registry["plain"].labels = "L1"

C29_UnsetPlaceholder ==
  /\ raw_api_key = Some(PlaceholderKey)
  /\ "K" \notin DOMAIN environ

\* C29: with server.api_key written as a placeholder whose variable is not
\* set, the config loads with no key, and no request is answered 401,
\* whatever its X-Api-Key header is, absent included.
C29_UnsetPlaceholderDisablesAuth ==
  C29_UnsetPlaceholder =>
    /\ api_key = None
    /\ \A i \in Slots :
         inflight[i].pc # "idle" =>
           /\ inflight[i].resp # Some(http_exception(401, "invalid_api_key"))
           /\ inflight[i].calls # <<>>

C29_Witness ==
  /\ C29_UnsetPlaceholder
  /\ api_key = None
  /\ inflight[1].pc = "done" /\ inflight[2].pc = "done"
  /\ inflight[1].request.x_api_key = None
  /\ inflight[2].request.x_api_key = Some("x")
  /\ inflight[1].resp # None /\ Val(inflight[1].resp).kind = "sent"
  /\ inflight[2].resp # None /\ Val(inflight[2].resp).kind = "sent"

====
